---- MODULE Spec2Model ----
(***************************************************************************)
(* Model of the LinkedIn agent's publishing state machine, its             *)
(* quota-checking publish windows and its discovery/deduplication          *)
(* pipeline.                                                                *)
(*                                                                         *)
(* Every repository call (GetPostByID, UpdatePost, ListPosts, ...) and     *)
(* every platform call is one atomic step; the Go code between two such    *)
(* calls runs on the caller's private copy of the row.  The cron callbacks *)
(* (one goroutine per firing) and the operator's CLI process interleave at *)
(* that granularity.                                                        *)
(***************************************************************************)
EXTENDS Integers, Sequences, FiniteSets, TLC

----------------------------------------------------------------------------
(* Bounds of the model *)

MaxTime == 3           \* last instant of the clock (the clock starts at 1)
DayLen == 3            \* instants per day: Truncate(24h) granularity
MaxCreates == 2        \* successful platform creates per post
MaxRetry == 1          \* failed platform calls recorded on one copy of a post
MaxPostsPerDay == 1    \* config.Publishing.MaxPostsPerDay of the run
MaxItems == 2          \* raw topics one discovery run fetches
MaxRuns == 2           \* discovery runs started
MaxFeed == 11          \* raw topics of a run that spans several ranking batches
MaxClock == 2          \* last tick of the limiter's clock
MaxRate == 1           \* tokens per tick a limiter is registered with
MaxBurst == 1          \* burst a limiter is registered with
MaxDebt == 0           \* tokens reserved ahead of their arrival
MaxAttempts == 4       \* failed platform calls of one post, in the runs of Publish alone
MaxFailed == 2         \* items of one batch the scorer gives no ranking for
MaxRequests == 1       \* requests sent before the last client call starts

(* Program constants *)

HighScoreThreshold == 80
MinScoreThreshold == 70  \* publishing.min_score_threshold, the default
RetryCap == 3           \* CanRetry: RetryCount < 3
smallBatch == 3
batchSize == 10

Windows == {"w1", "w2"}          \* publish-window cron callbacks
Operators == {"cli"}             \* the operator's CLI process
Crons == {"digest"}              \* the digest-generation cron callback
Procs == Windows \cup Operators \cup Crons
Runners == {"cron", "cli"}       \* the daemon's discovery callback, the CLI's discover command
Sources == {"hn", "rss"}         \* configured topic sources
Urls == {"u1", "u2"}
Scores == {0, 90}                \* 0: no ranking came back for the item
LimiterLinkedIn == "linkedin"
Names == {LimiterLinkedIn, "unknown"}    \* service names callers pass
Callers == {"c1", "c2"}          \* goroutines calling the limiter

PostStatusDraft == "draft"
PostStatusScheduled == "scheduled"
PostStatusPublishing == "publishing"
PostStatusPublished == "published"
PostStatusFailed == "failed"

TopicStatusPending == "pending"
TopicStatusApproved == "approved"
TopicStatusUsed == "used"

VARIABLES
    backend,        \* "sqlite" or "sheets": the repository the process opened
    fallbackToText, \* mediaConfig.FallbackToText
    AutoApprove,    \* config.AutoApprove
    daemon,         \* the scheduler process: "running", "exited" or "crashed"
    signal,         \* whether the shutdown signal has arrived
    now,            \* the wall clock
    topics,         \* persisted Topics, in row order
    posts,          \* persisted Posts; posts[i] is the row with ID i
    created,        \* platform: successful create calls per post
    pc,             \* position of each process in its operation
    cur,            \* the post ID the process's operation is about
    lp,             \* the process's private copy of that post
    arg,            \* SchedulePost's scheduledFor argument
    urn,            \* Publish's local urn (0: the platform call failed)
    response,       \* history: what the platform did on the Publish of an image post
    due,            \* ProcessScheduledPosts: posts still to publish
    published,      \* ProcessScheduledPosts' local published counter
    quota,          \* the window callback's todayCount and err
    result,         \* what the process's last operation returned
    overQuota,      \* history: ProcessScheduledPosts was invoked today at count >= max
    windowPublishedToday, \* history: posts the windows published today
    dpc,            \* position of each discovery run
    raw,            \* discovery: fetched raw topics not yet deduplicated
    seen,           \* deduplicateTopics' seen map
    unique,         \* deduplicateTopics' unique slice
    ranked,         \* rankTopics' result not yet saved
    nextTopicID,    \* Sheets repository: the process's nextTopicID
    runs,           \* discovery runs started
    feed,           \* what the sources returned to the latest run
    dres,           \* each run's DiscoveryResult
    fapc,           \* FetchAll: position of the calling goroutine
    fpc,            \* FetchAll: position of each source's goroutine
    fres,           \* what each source's Fetch returned
    results,        \* FetchAll's results channel
    received,       \* FetchAll: results taken from the channel
    allTopics,      \* FetchAll's merged topics
    fetchErrors,    \* FetchAll's errors: the sources that failed, in arrival order
    cancelled,      \* the context passed to FetchAll is cancelled
    limiters,       \* MultiLimiter.limiters, with each limiter's bucket
    clock,          \* the limiter's clock, in ticks
    lpc,            \* position of each caller of the limiter
    lop,            \* the limiter method a caller called last
    lname,          \* the service name it passed
    lctx,           \* whether the context of a caller's Wait is cancelled
    lres,           \* what the caller's last limiter call returned
    granted,        \* history: the ticks at which each service permitted a call
    cpc,            \* position of each caller inside a platform client call
    cop,            \* the client operation the caller is in
    plan,           \* the requests the operation has still to make
    requests,       \* history: the requests the platform client sent
    cres,           \* what the caller's last client operation returned
    comments,       \* persisted Comments, in row order
    kpc,            \* position of the commenter's Run
    candidates,     \* commenter Run: the discovered posts still to look at
    comment,        \* generateAndPostCommentWithStyle's comment (its row and status)
    CommentsPosted, \* the latest Run's CommentResult.CommentsPosted
    commentRuns,    \* commenter Runs started
    commentsOn      \* platform: comments created on each target post

vars == <<backend, fallbackToText, AutoApprove, daemon, signal, now, topics, posts, created, pc, cur, lp,
          arg, urn, response, due, published, quota, result, overQuota, windowPublishedToday,
          dpc, raw, seen, unique, ranked, nextTopicID, runs, feed, dres,
          fapc, fpc, fres, results, received, allTopics, fetchErrors, cancelled,
          limiters, clock, lpc, lop, lname, lctx, lres, granted,
          cpc, cop, plan, requests, cres,
          comments, kpc, candidates, comment, CommentsPosted, commentRuns, commentsOn>>

\* DiscoveryResult; batches lists the outcome of each ranking call, err is
\* the error the run returned
NoResult == [found |-> 0, ranked |-> 0, saved |-> 0, skipped |-> 0,
             errors |-> 0, batches |-> << >>, err |-> FALSE]

\* a name without an entry in the limiters map
NoLimiter == [reg |-> FALSE, rate |-> 0, burst |-> 0, tokens |-> 0]

\* the result struct of FetchAll
\* (late: the Fetch returned after the context was cancelled)
NoFetch == [source |-> "", topics |-> << >>, err |-> FALSE, late |-> FALSE]

\* media: the post has an image attached (MediaType image, MediaURL set);
\* asset: its MediaAssetURN, 0 when empty; format: PostFormat is not nil
\* the empty string a create call returns next to a nil error
NoID == -1

PostTypeText == "text"
PostTypePoll == "poll"

NoPost == [status |-> "none", sched |-> 0, pubAt |-> 0, urn |-> 0,
           retry |-> 0, err |-> FALSE, topic |-> 0,
           type |-> PostTypeText, media |-> FALSE, asset |-> 0, format |-> FALSE]

PostIds == 1..(MaxPostsPerDay + 1)
Exists(p) == p \in 1..Len(posts)

----------------------------------------------------------------------------
(* Repository *)

\* time.Now().Truncate(24 * time.Hour)
Truncate(t) == t - (t % DayLen)

\* fmt.Sprintf("%s:%s", sourceType, url); the truncated SHA-256 of that
\* string is taken to be collision-free on the strings of the model
GenerateExternalID(sourceType, url) == sourceType \o ":" \o url

\* 0 stands for nil
GetTopicByExternalID(externalID) ==
    LET hit == {i \in 1..Len(topics) : topics[i].ext = externalID}
    IN IF hit = {} THEN 0 ELSE CHOOSE i \in hit : \A j \in hit : i <= j

GetTopicByID(id) ==
    LET hit == {i \in 1..Len(topics) : topics[i].id = id}
    IN IF hit = {} THEN 0 ELSE CHOOSE i \in hit : \A j \in hit : i <= j

\* a due-post query that finds nothing
NoneDue(before) == {}

\* sqlite: status = 'scheduled' AND scheduled_for <= before (a NULL never
\* matches)
SqliteGetScheduledPosts(before) ==
    {p \in 1..Len(posts) :
        /\ posts[p].status = PostStatusScheduled
        /\ posts[p].sched # 0
        /\ posts[p].sched <= before}

\* Sheets: p.ScheduledFor != nil && p.ScheduledFor.Before(before), which is
\* strict
SheetsGetScheduledPosts(before) ==
    {p \in 1..Len(posts) :
        /\ posts[p].status = PostStatusScheduled
        /\ posts[p].sched # 0
        /\ posts[p].sched < before}

GetScheduledPosts(before) ==
    IF backend = "sqlite" THEN SqliteGetScheduledPosts(before)
                          ELSE SheetsGetScheduledPosts(before)

GetTodayPublishCount ==
    Cardinality({p \in 1..Len(posts) :
        /\ posts[p].status = PostStatusPublished
        /\ posts[p].pubAt # 0
        /\ posts[p].pubAt > Truncate(now)})

GetMaxPostsPerDay == MaxPostsPerDay

\* the comparison with > in place of >=
QuotaExceeded(todayCount) == todayCount > MaxPostsPerDay

QuotaReached(todayCount) == todayCount >= GetMaxPostsPerDay

IsHighScore(score) == score >= HighScoreThreshold

UpdatePost(id, post) == [posts EXCEPT ![id] = post]

----------------------------------------------------------------------------
(* Returning from an operation: a window goes back to the loop of           *)
(* ProcessScheduledPosts, the CLI process exits.                            *)

\* no image post was sent to the platform in the current run of Publish
NoResponse == [media |-> "none", create |-> "none"]

Return(c, res) ==
    /\ pc' = [pc EXCEPT ![c] = IF c \in Windows THEN "psp_loop" ELSE "idle"]
    /\ result' = IF c \in Operators THEN [result EXCEPT ![c] = res] ELSE result
    /\ lp' = [lp EXCEPT ![c] = NoPost]
    /\ cur' = [cur EXCEPT ![c] = 0]
    /\ arg' = [arg EXCEPT ![c] = 0]
    /\ urn' = [urn EXCEPT ![c] = 0]
    /\ response' = [response EXCEPT ![c] = NoResponse]

Goto(c, label) == pc' = [pc EXCEPT ![c] = label]

scheduler == <<daemon, signal>>
commenter == <<comments, kpc, candidates, comment, CommentsPosted, commentRuns, commentsOn>>

CommentStatusPending == "pending"
CommentStatusPosted == "posted"
CommentStatusFailed == "failed"

\* the posts of the target influencers
TargetPosts == {"urn1", "urn2"}

NoComment == [row |-> 0, status |-> ""]

\* the commenter after NewAgent, with a repository that holds no Comment
InitCommenter ==
    /\ comments = << >>
    /\ kpc = "idle"
    /\ candidates = << >>
    /\ comment = NoComment
    /\ CommentsPosted = 0
    /\ commentRuns = 0
    /\ commentsOn = [t \in TargetPosts |-> 0]
config == <<backend, fallbackToText, AutoApprove, scheduler>>
discovery == <<dpc, raw, seen, unique, ranked, nextTopicID, runs, feed, dres>>
fanout == <<fapc, fpc, fres, results, received, allTopics, fetchErrors, cancelled>>
limiter == <<limiters, clock, lpc, lop, lname, lctx, lres, granted>>
client == <<cpc, cop, plan, requests, cres>>
services == <<fanout, limiter, client>>
call == <<urn, response>>
publisher == <<now, posts, created, pc, cur, lp, arg, call, due, published,
               quota, result, overQuota, windowPublishedToday>>
platform == <<created>>
history == <<overQuota, windowPublishedToday>>
window == <<due, quota>>

----------------------------------------------------------------------------
(* Publish *)

\* a Publish that accepts a post in every status
NeverPublished(post) == FALSE

AlreadyPublished(post) == post.status = PostStatusPublished

PublishRead(c) ==
    /\ pc[c] = "pub_read"
    /\ IF ~Exists(cur[c]) THEN Return(c, "post not found")
       ELSE IF AlreadyPublished(posts[cur[c]]) THEN Return(c, "post already published")
       ELSE /\ lp' = [lp EXCEPT ![c] = posts[cur[c]]]
            /\ Goto(c, "pub_mark")
            /\ UNCHANGED <<result, cur, arg, call>>
    /\ UNCHANGED <<config, commenter, services, discovery, now, topics, posts, platform, window, published, history>>

\* a.repository.UpdatePost(ctx, post) with its error dropped: a failed
\* update leaves the stored row as it was
Saved(id, post, updateErr) == IF updateErr THEN posts ELSE UpdatePost(id, post)

PublishMarkOn(c, updateErr) ==
    /\ pc[c] = "pub_mark"
    /\ LET post == [lp[c] EXCEPT !.status = PostStatusPublishing]
       IN /\ lp' = [lp EXCEPT ![c] = post]
          /\ posts' = Saved(cur[c], post, updateErr)
    /\ Goto(c, "pub_call")
    /\ UNCHANGED <<config, commenter, services, discovery, now, topics, platform, cur, arg, call, window, published,
                   result, history>>

PublishMark(c) == PublishMarkOn(c, FALSE)

\* what the platform does on one Publish: whether the image download and
\* upload go through, and whether the create call fails, returns an
\* identifier or returns a success without one
Responses == [media : {"ok", "failed"}, create : {"id", "no id", "error"}]

WellBehaved == {r \in Responses : r.media = "ok" /\ r.create # "no id"}

\* a publishWithImage that falls back whatever the configuration says
AlwaysFallback == TRUE

\* a.mediaConfig.FallbackToText
FallbackToText == fallbackToText

\* publishWithImage: the image post, or CreatePost when the download or the
\* upload failed and the fallback is configured
publishWithImage(resp) ==
    IF resp.media = "ok"
    THEN [create |-> resp.create, asset |-> resp.create # "error"]
    ELSE IF FallbackToText THEN [create |-> resp.create, asset |-> FALSE]
                           ELSE [create |-> "error", asset |-> FALSE]

\* the switch on post.PostType in Publish
PlatformCall(post, resp) ==
    IF post.type = PostTypePoll
    THEN IF post.format THEN [create |-> resp.create, asset |-> FALSE]
                        ELSE [create |-> "no call", asset |-> FALSE]
    ELSE IF post.media THEN publishWithImage(resp)
    ELSE [create |-> resp.create, asset |-> FALSE]

\* urn, err of the platform call: urn[c] is 0 after an error, NoID after a
\* success whose response carried no identifier; a post fails at most cap
\* times
PublishCallOn(c, resp, cap) ==
    /\ pc[c] = "pub_call"
    /\ LET out == PlatformCall(lp[c], resp)
       IN IF out.create = "no call"
          THEN /\ urn' = [urn EXCEPT ![c] = NoID]
               /\ UNCHANGED <<created, lp>>
          ELSE IF out.create # "error"
          THEN /\ created[cur[c]] < MaxCreates
               /\ created' = [created EXCEPT ![cur[c]] = @ + 1]
               /\ urn' = [urn EXCEPT ![c] = IF out.create = "id"
                                            THEN created[cur[c]] + 1 ELSE NoID]
               /\ lp' = [lp EXCEPT ![c].asset = IF out.asset THEN 1 ELSE @]
          ELSE /\ lp[c].retry < cap
               /\ urn' = [urn EXCEPT ![c] = 0]
               /\ UNCHANGED <<created, lp>>
    /\ response' = [response EXCEPT ![c] = IF lp[c].media THEN resp ELSE NoResponse]
    /\ Goto(c, "pub_save")
    /\ UNCHANGED <<config, commenter, services, discovery, now, topics, posts, cur, arg, window, published,
                   result, history>>

PublishCall(c) == \E resp \in WellBehaved : PublishCallOn(c, resp, MaxRetry)

PublishSaveFailedOn(c, updateErr) ==
    /\ pc[c] = "pub_save"
    /\ urn[c] = 0
    /\ posts' = Saved(cur[c], [lp[c] EXCEPT !.status = PostStatusFailed,
                                            !.err = TRUE,
                                            !.retry = @ + 1], updateErr)
    /\ Return(c, "platform error")
    /\ UNCHANGED <<config, commenter, services, discovery, now, topics, platform, window, published, history>>

PublishSaveFailed(c) == PublishSaveFailedOn(c, FALSE)

PublishSaveOkOn(c, updateErr) ==
    /\ pc[c] = "pub_save"
    /\ urn[c] # 0
    /\ LET post == [lp[c] EXCEPT !.status = PostStatusPublished,
                                 !.urn = IF urn[c] = NoID THEN 0 ELSE urn[c],
                                 !.pubAt = now]
       IN /\ lp' = [lp EXCEPT ![c] = post]
          /\ posts' = Saved(cur[c], post, updateErr)
    /\ Goto(c, "pub_topic")
    /\ UNCHANGED <<config, commenter, services, discovery, now, topics, platform, cur, arg, call, window, published,
                   result, history>>

PublishSaveOk(c) == PublishSaveOkOn(c, FALSE)

\* topic, err := a.repository.GetTopicByID(ctx, *post.TopicID); err == nil
TopicFound(i) == i

\* the success branch after the update: mark the topic as used unless the
\* lookup failed, and return
PublishTopicOn(c, lookupErr) ==
    /\ pc[c] = "pub_topic"
    /\ LET i == IF lookupErr THEN 0 ELSE TopicFound(GetTopicByID(lp[c].topic))
       IN topics' = IF lp[c].topic # 0 /\ i # 0
                    THEN [topics EXCEPT ![i].status = TopicStatusUsed]
                    ELSE topics
    /\ Return(c, "published")
    /\ published' = IF c \in Windows THEN [published EXCEPT ![c] = @ + 1]
                                     ELSE published
    /\ windowPublishedToday' = IF c \in Windows THEN windowPublishedToday + 1
                                                ELSE windowPublishedToday
    /\ UNCHANGED <<config, commenter, services, discovery, now, posts, platform, window, overQuota>>

PublishTopic(c) == PublishTopicOn(c, FALSE)

----------------------------------------------------------------------------
(* SchedulePost *)

\* a SchedulePost that accepts a post in every status
AlwaysSchedulable(post) == FALSE

CannotSchedule(post) == post.status = PostStatusPublished

SchedulePostRead(c) ==
    /\ pc[c] = "sched_read"
    /\ IF ~Exists(cur[c]) THEN Return(c, "post not found")
       ELSE IF CannotSchedule(posts[cur[c]])
            THEN Return(c, "cannot schedule already published post")
       ELSE /\ lp' = [lp EXCEPT ![c] = posts[cur[c]]]
            /\ Goto(c, "sched_write")
            /\ UNCHANGED <<result, cur, arg, call>>
    /\ UNCHANGED <<config, commenter, services, discovery, now, topics, posts, platform, window, published, history>>

SchedulePostWrite(c) ==
    /\ pc[c] = "sched_write"
    /\ posts' = UpdatePost(cur[c], [lp[c] EXCEPT !.status = PostStatusScheduled,
                                                 !.sched = arg[c]])
    /\ Return(c, "scheduled")
    /\ UNCHANGED <<config, commenter, services, discovery, now, topics, platform, window, published, history>>

----------------------------------------------------------------------------
(* ApprovePost *)

\* an ApprovePost that accepts a post in every status
AnyStatus(post) == TRUE

\* an ApprovePost that also accepts failed posts
IsDraftOrFailed(post) == post.status \in {PostStatusDraft, PostStatusFailed}

IsDraft(post) == post.status = PostStatusDraft

ApprovePostRead(c) ==
    /\ pc[c] = "appr_read"
    /\ IF ~Exists(cur[c]) THEN Return(c, "post not found")
       ELSE IF ~IsDraft(posts[cur[c]]) THEN Return(c, "can only approve draft posts")
       ELSE /\ lp' = [lp EXCEPT ![c] = posts[cur[c]]]
            /\ Goto(c, "appr_write")
            /\ UNCHANGED <<result, cur, arg, call>>
    /\ UNCHANGED <<config, commenter, services, discovery, now, topics, posts, platform, window, published, history>>

ApprovePostWrite(c) ==
    /\ pc[c] = "appr_write"
    /\ posts' = UpdatePost(cur[c], [lp[c] EXCEPT !.status = PostStatusScheduled,
                                                 !.sched = now])
    /\ Return(c, "approved")
    /\ UNCHANGED <<config, commenter, services, discovery, now, topics, platform, window, published, history>>

----------------------------------------------------------------------------
(* GenerateContent: load the topic, generate, save the draft; a high-score  *)
(* topic under auto-approve is then promoted by a second repository call.   *)

ShouldAutoSchedule(score, autoApprove) == IsHighScore(score) /\ autoApprove

GenerateContent(c, topicID, autoApprove) ==
    /\ pc[c] = "idle"
    /\ LET i == GetTopicByID(topicID)
       IN IF i = 0
          THEN /\ result' = [result EXCEPT ![c] = "topic not found"]
               /\ UNCHANGED <<posts, pc, cur, lp>>
          ELSE \E generated \in BOOLEAN :
                 IF ~generated
                 THEN /\ result' = [result EXCEPT ![c] = "failed to generate content"]
                      /\ UNCHANGED <<posts, pc, cur, lp>>
                 ELSE /\ posts = << >>
                      /\ LET post == [NoPost EXCEPT !.status = PostStatusDraft,
                                                    !.topic = topicID]
                         IN /\ posts' = Append(posts, post)
                            /\ IF ShouldAutoSchedule(topics[i].score, autoApprove)
                               THEN /\ Goto(c, "gen_promote")
                                    /\ cur' = [cur EXCEPT ![c] = Len(posts) + 1]
                                    /\ lp' = [lp EXCEPT ![c] = post]
                                    /\ UNCHANGED result
                               ELSE /\ result' = [result EXCEPT ![c] = "ok"]
                                    /\ UNCHANGED <<pc, cur, lp>>
    /\ UNCHANGED <<config, commenter, services, discovery, now, topics, platform, arg, call, window, published, history>>

GenerateContentPromote(c) ==
    /\ pc[c] = "gen_promote"
    /\ posts' = UpdatePost(cur[c], [lp[c] EXCEPT !.status = PostStatusScheduled,
                                                 !.sched = now])
    /\ Return(c, "ok")
    /\ UNCHANGED <<config, commenter, services, discovery, now, topics, platform, window, published, history>>

----------------------------------------------------------------------------
(* The operator's commands: publish now, publish schedule, publish approve  *)

CliPublish(c, p) ==
    /\ pc[c] = "idle"
    /\ Goto(c, "pub_read")
    /\ cur' = [cur EXCEPT ![c] = p]
    /\ result' = [result EXCEPT ![c] = "none"]
    /\ UNCHANGED <<config, commenter, services, discovery, now, topics, posts, platform, lp, arg, call, window,
                   published, history>>

CliSchedule(c, p, at) ==
    /\ pc[c] = "idle"
    /\ Goto(c, "sched_read")
    /\ cur' = [cur EXCEPT ![c] = p]
    /\ arg' = [arg EXCEPT ![c] = at]
    /\ result' = [result EXCEPT ![c] = "none"]
    /\ UNCHANGED <<config, commenter, services, discovery, now, topics, posts, platform, lp, call, window,
                   published, history>>

CliApprove(c, p) ==
    /\ pc[c] = "idle"
    /\ Goto(c, "appr_read")
    /\ cur' = [cur EXCEPT ![c] = p]
    /\ result' = [result EXCEPT ![c] = "none"]
    /\ UNCHANGED <<config, commenter, services, discovery, now, topics, posts, platform, lp, arg, call, window,
                   published, history>>

----------------------------------------------------------------------------
(* The publish-window callback and ProcessScheduledPosts *)

WindowFire(w) ==
    /\ pc[w] = "idle"
    /\ \E failed \in BOOLEAN :
         quota' = [quota EXCEPT ![w] =
                     IF failed THEN [count |-> 0, err |-> TRUE]
                               ELSE [count |-> GetTodayPublishCount, err |-> FALSE]]
    /\ Goto(w, "checked")
    /\ UNCHANGED <<config, commenter, services, discovery, now, topics, posts, platform, cur, lp, arg, call, due,
                   published, result, history>>

SkipOnError(q) == q.err \/ QuotaReached(q.count)

\* the callback returns before ProcessScheduledPosts only when the count was
\* read and is at the ceiling; a failed read is logged and the run goes on
SkipRun(q) == ~q.err /\ QuotaReached(q.count)

WindowSkip(w) ==
    /\ pc[w] = "checked"
    /\ SkipRun(quota[w])
    /\ Goto(w, "idle")
    /\ UNCHANGED <<config, commenter, services, discovery, now, topics, posts, platform, cur, lp, arg, call, due,
                   quota, published, result, history>>

ProcessScheduledPosts(w) ==
    /\ pc[w] = "checked"
    /\ ~SkipRun(quota[w])
    /\ due' = [due EXCEPT ![w] = GetScheduledPosts(now)]
    /\ published' = [published EXCEPT ![w] = 0]
    /\ overQuota' = [overQuota EXCEPT ![w] = GetTodayPublishCount >= MaxPostsPerDay]
    /\ quota' = [quota EXCEPT ![w] = [count |-> 0, err |-> FALSE]]
    /\ Goto(w, "psp_loop")
    /\ UNCHANGED <<config, commenter, services, discovery, now, topics, posts, platform, cur, lp, arg, call,
                   result, windowPublishedToday>>

Min(S) == CHOOSE x \in S : \A y \in S : x <= y

ProcessNext(w) ==
    /\ pc[w] = "psp_loop"
    /\ due[w] # {}
    /\ cur' = [cur EXCEPT ![w] = Min(due[w])]
    /\ due' = [due EXCEPT ![w] = @ \ {Min(@)}]
    /\ Goto(w, "pub_read")
    /\ UNCHANGED <<config, commenter, services, discovery, now, topics, posts, platform, lp, arg, call, published,
                   quota, result, history>>

WindowDone(w) ==
    /\ pc[w] = "psp_loop"
    /\ due[w] = {}
    /\ Goto(w, "idle")
    /\ published' = [published EXCEPT ![w] = 0]
    /\ overQuota' = [overQuota EXCEPT ![w] = FALSE]
    /\ UNCHANGED <<config, commenter, services, discovery, now, topics, posts, platform, cur, lp, arg, call, due,
                   quota, result, windowPublishedToday>>

----------------------------------------------------------------------------
(* Time passes; at midnight the per-day history starts again *)

Tick ==
    /\ now < MaxTime
    /\ now' = now + 1
    /\ IF Truncate(now + 1) # Truncate(now)
       THEN /\ overQuota' = [w \in Windows |-> FALSE]
            /\ windowPublishedToday' = 0
       ELSE UNCHANGED history
    /\ UNCHANGED <<config, commenter, services, discovery, topics, posts, platform, pc, cur, lp, arg, call, window,
                   published, result>>

----------------------------------------------------------------------------
(* The specification of the publisher *)

Init ==
    /\ backend \in {"sqlite", "sheets"}
    /\ fallbackToText = TRUE
    /\ AutoApprove = FALSE
    /\ daemon = "running"
    /\ signal = FALSE
    /\ InitCommenter
    /\ now = 1
    /\ topics = << [id |-> 1, ext |-> GenerateExternalID("rss", "u1"), status |-> TopicStatusPending, score |-> 80] >>
    /\ posts = << >>
    /\ dpc = [r \in Runners |-> "idle"]
    /\ raw = [r \in Runners |-> << >>]
    /\ seen = [r \in Runners |-> {}]
    /\ unique = [r \in Runners |-> << >>]
    /\ ranked = [r \in Runners |-> << >>]
    /\ nextTopicID = [r \in Runners |-> 2]
    /\ runs = 0
    /\ feed = << >>
    /\ fapc = "idle"
    /\ fpc = [s \in Sources |-> "idle"]
    /\ fres = [s \in Sources |-> NoFetch]
    /\ results = << >>
    /\ received = 0
    /\ allTopics = << >>
    /\ fetchErrors = << >>
    /\ cancelled = FALSE
    /\ limiters = [n \in Names |-> NoLimiter]
    /\ clock = 0
    /\ lpc = [c \in Callers |-> "idle"]
    /\ lop = [c \in Callers |-> ""]
    /\ lname = [c \in Callers |-> ""]
    /\ lctx = [c \in Callers |-> FALSE]
    /\ lres = [c \in Callers |-> "none"]
    /\ granted = [n \in Names |-> << >>]
    /\ cpc = [c \in Callers |-> "idle"]
    /\ cop = [c \in Callers |-> ""]
    /\ plan = [c \in Callers |-> << >>]
    /\ requests = << >>
    /\ cres = [c \in Callers |-> "none"]
    /\ dres = [r \in Runners |-> NoResult]
    /\ created = [p \in PostIds |-> 0]
    /\ pc = [c \in Procs |-> "idle"]
    /\ cur = [c \in Procs |-> 0]
    /\ lp = [c \in Procs |-> NoPost]
    /\ arg = [c \in Procs |-> 0]
    /\ urn = [c \in Procs |-> 0]
    /\ response = [c \in Procs |-> NoResponse]
    /\ due = [c \in Windows |-> {}]
    /\ published = [c \in Windows |-> 0]
    /\ quota = [c \in Windows |-> [count |-> 0, err |-> FALSE]]
    /\ result = [c \in Operators |-> "none"]
    /\ overQuota = [c \in Windows |-> FALSE]
    /\ windowPublishedToday = 0

(* The publisher's state machine: one window callback and the operator's    *)
(* commands race on the post GenerateContent created.                       *)
Actors == {"w1"} \cup Operators

\* the times the operator passes to `schedule`: the first instant (due at
\* once) and the one after it (due after the clock has moved)
ScheduleTimes == {1, 2}

Next ==
    \/ \E c \in Actors : PublishRead(c)
    \/ \E c \in Actors : PublishMark(c)
    \/ \E c \in Actors : PublishCall(c)
    \/ \E c \in Actors : PublishSaveFailed(c)
    \/ \E c \in Actors : PublishSaveOk(c)
    \/ \E c \in Actors : PublishTopic(c)
    \/ \E c \in Operators : SchedulePostRead(c)
    \/ \E c \in Operators : SchedulePostWrite(c)
    \/ \E c \in Operators : ApprovePostRead(c)
    \/ \E c \in Operators : ApprovePostWrite(c)
    \/ \E c \in Operators, t \in 1..2, a \in BOOLEAN : GenerateContent(c, t, a)
    \/ \E c \in Operators : GenerateContentPromote(c)
    \/ \E c \in Operators, p \in 1..2 : CliPublish(c, p)
    \/ \E c \in Operators, p \in 1..2, at \in ScheduleTimes : CliSchedule(c, p, at)
    \/ \E c \in Operators, p \in 1..2 : CliApprove(c, p)
    \/ \E w \in Actors \cap Windows : WindowFire(w)
    \/ \E w \in Actors \cap Windows : WindowSkip(w)
    \/ \E w \in Actors \cap Windows : ProcessScheduledPosts(w)
    \/ \E w \in Actors \cap Windows : ProcessNext(w)
    \/ \E w \in Actors \cap Windows : WindowDone(w)
    \/ Tick

Spec == Init /\ [][Next]_vars

----------------------------------------------------------------------------
(* The publish windows and the daily quota: the windows fire on a queue     *)
(* that holds one due post more than the quota allows.                      *)

\* the posts are scheduled for the times given
InitWindows(times) ==
    /\ backend \in {"sqlite", "sheets"}
    /\ fallbackToText = TRUE
    /\ AutoApprove = FALSE
    /\ daemon = "running"
    /\ signal = FALSE
    /\ InitCommenter
    /\ now = 1
    /\ topics = << [id |-> 1, ext |-> GenerateExternalID("rss", "u1"), status |-> TopicStatusPending, score |-> 80] >>
    /\ posts = [p \in DOMAIN times |-> [NoPost EXCEPT !.status = PostStatusScheduled,
                                                 !.sched = times[p],
                                                 !.topic = 1]]
    /\ dpc = [r \in Runners |-> "idle"]
    /\ raw = [r \in Runners |-> << >>]
    /\ seen = [r \in Runners |-> {}]
    /\ unique = [r \in Runners |-> << >>]
    /\ ranked = [r \in Runners |-> << >>]
    /\ nextTopicID = [r \in Runners |-> 2]
    /\ runs = 0
    /\ feed = << >>
    /\ fapc = "idle"
    /\ fpc = [s \in Sources |-> "idle"]
    /\ fres = [s \in Sources |-> NoFetch]
    /\ results = << >>
    /\ received = 0
    /\ allTopics = << >>
    /\ fetchErrors = << >>
    /\ cancelled = FALSE
    /\ limiters = [n \in Names |-> NoLimiter]
    /\ clock = 0
    /\ lpc = [c \in Callers |-> "idle"]
    /\ lop = [c \in Callers |-> ""]
    /\ lname = [c \in Callers |-> ""]
    /\ lctx = [c \in Callers |-> FALSE]
    /\ lres = [c \in Callers |-> "none"]
    /\ granted = [n \in Names |-> << >>]
    /\ cpc = [c \in Callers |-> "idle"]
    /\ cop = [c \in Callers |-> ""]
    /\ plan = [c \in Callers |-> << >>]
    /\ requests = << >>
    /\ cres = [c \in Callers |-> "none"]
    /\ dres = [r \in Runners |-> NoResult]
    /\ created = [p \in PostIds |-> 0]
    /\ pc = [c \in Procs |-> "idle"]
    /\ cur = [c \in Procs |-> 0]
    /\ lp = [c \in Procs |-> NoPost]
    /\ arg = [c \in Procs |-> 0]
    /\ urn = [c \in Procs |-> 0]
    /\ response = [c \in Procs |-> NoResponse]
    /\ due = [c \in Windows |-> {}]
    /\ published = [c \in Windows |-> 0]
    /\ quota = [c \in Windows |-> [count |-> 0, err |-> FALSE]]
    /\ result = [c \in Operators |-> "none"]
    /\ overQuota = [c \in Windows |-> FALSE]
    /\ windowPublishedToday = 0

InitQuota == InitWindows([p \in PostIds |-> 1])

NextQuota ==
    \/ \E c \in Windows : PublishRead(c)
    \/ \E c \in Windows : PublishMark(c)
    \/ \E c \in Windows : PublishCall(c)
    \/ \E c \in Windows : PublishSaveFailed(c)
    \/ \E c \in Windows : PublishSaveOk(c)
    \/ \E c \in Windows : PublishTopic(c)
    \/ \E w \in Windows : WindowFire(w)
    \/ \E w \in Windows : WindowSkip(w)
    \/ \E w \in Windows : ProcessScheduledPosts(w)
    \/ \E w \in Windows : ProcessNext(w)
    \/ \E w \in Windows : WindowDone(w)
    \/ Tick

SpecQuota == InitQuota /\ [][NextQuota]_vars

\* every step of the callback of one publish window, Publish included
WindowCallback(w) ==
    \/ WindowFire(w)
    \/ WindowSkip(w)
    \/ ProcessScheduledPosts(w)
    \/ ProcessNext(w)
    \/ WindowDone(w)
    \/ PublishRead(w)
    \/ PublishMark(w)
    \/ PublishCall(w)
    \/ PublishSaveFailed(w)
    \/ PublishSaveOk(w)
    \/ PublishTopic(w)

\* cron fires every window again and again, a callback that has started
\* runs on (every call it makes returns), and time passes; two posts, one
\* scheduled for the first and one for the second instant
SpecQuotaFair ==
    /\ InitWindows(<<1, 2>>)
    /\ [][NextQuota]_vars
    /\ \A w \in Windows : WF_vars(WindowCallback(w))
    /\ WF_vars(Tick)

----------------------------------------------------------------------------
(* The scheduler process: cron runs every callback in a goroutine of its   *)
(* own; runScheduler waits for the shutdown signal, calls c.Stop() and     *)
(* returns, which ends the process and every goroutine in it.              *)

\* a step of a callback is taken only while the process lives
Alive(step) == daemon = "running" /\ step

\* SIGINT or SIGTERM is delivered to sigChan
Signal ==
    /\ daemon = "running"
    /\ ~signal
    /\ signal' = TRUE
    /\ UNCHANGED <<commenter, backend, fallbackToText, AutoApprove, daemon, services, discovery, topics,
                   publisher>>

\* <-sigChan; c.Stop(); return nil: Stop returns at once with a context that
\* is done when the running jobs are, and runScheduler drops that context
Shutdown ==
    /\ daemon = "running"
    /\ signal
    /\ daemon' = "exited"
    /\ UNCHANGED <<commenter, backend, fallbackToText, AutoApprove, signal, services, discovery, topics,
                   publisher>>

NextDaemon ==
    \/ \E c \in Windows : Alive(PublishRead(c))
    \/ \E c \in Windows : Alive(PublishMark(c))
    \/ \E c \in Windows : Alive(PublishCall(c))
    \/ \E c \in Windows : Alive(PublishSaveFailed(c))
    \/ \E c \in Windows : Alive(PublishSaveOk(c))
    \/ \E c \in Windows : Alive(PublishTopic(c))
    \/ \E w \in Windows : Alive(WindowFire(w))
    \/ \E w \in Windows : Alive(WindowSkip(w))
    \/ \E w \in Windows : Alive(ProcessScheduledPosts(w))
    \/ \E w \in Windows : Alive(ProcessNext(w))
    \/ \E w \in Windows : Alive(WindowDone(w))
    \/ Tick
    \/ Signal
    \/ Shutdown

SpecDaemon == InitQuota /\ [][NextDaemon]_vars

----------------------------------------------------------------------------
(* Publish on its own: the operator publishes and re-schedules one          *)
(* scheduled post (a text post, a text post with an image, or a poll), the  *)
(* platform answers in every way, and the topic lookup may fail.  The       *)
(* Sheets rows have no media columns, so an image is attached only on       *)
(* sqlite.                                                                   *)

InitPublish ==
    /\ backend \in {"sqlite", "sheets"}
    /\ fallbackToText \in BOOLEAN
    /\ AutoApprove = FALSE
    /\ daemon = "running"
    /\ signal = FALSE
    /\ InitCommenter
    /\ now = 1
    /\ topics = << [id |-> 1, ext |-> GenerateExternalID("rss", "u1"), status |-> TopicStatusPending, score |-> 80] >>
    /\ \E type \in {PostTypeText, PostTypePoll}, media \in BOOLEAN, format \in BOOLEAN :
          /\ media => type = PostTypeText /\ backend = "sqlite"
          /\ format => type = PostTypePoll
          /\ posts = << [NoPost EXCEPT !.status = PostStatusScheduled,
                                       !.sched = 1,
                                       !.topic = 1,
                                       !.type = type,
                                       !.media = media,
                                       !.format = format] >>
    /\ dpc = [r \in Runners |-> "idle"]
    /\ raw = [r \in Runners |-> << >>]
    /\ seen = [r \in Runners |-> {}]
    /\ unique = [r \in Runners |-> << >>]
    /\ ranked = [r \in Runners |-> << >>]
    /\ nextTopicID = [r \in Runners |-> 2]
    /\ runs = 0
    /\ feed = << >>
    /\ fapc = "idle"
    /\ fpc = [s \in Sources |-> "idle"]
    /\ fres = [s \in Sources |-> NoFetch]
    /\ results = << >>
    /\ received = 0
    /\ allTopics = << >>
    /\ fetchErrors = << >>
    /\ cancelled = FALSE
    /\ limiters = [n \in Names |-> NoLimiter]
    /\ clock = 0
    /\ lpc = [c \in Callers |-> "idle"]
    /\ lop = [c \in Callers |-> ""]
    /\ lname = [c \in Callers |-> ""]
    /\ lctx = [c \in Callers |-> FALSE]
    /\ lres = [c \in Callers |-> "none"]
    /\ granted = [n \in Names |-> << >>]
    /\ cpc = [c \in Callers |-> "idle"]
    /\ cop = [c \in Callers |-> ""]
    /\ plan = [c \in Callers |-> << >>]
    /\ requests = << >>
    /\ cres = [c \in Callers |-> "none"]
    /\ dres = [r \in Runners |-> NoResult]
    /\ created = [p \in PostIds |-> 0]
    /\ pc = [c \in Procs |-> "idle"]
    /\ cur = [c \in Procs |-> 0]
    /\ lp = [c \in Procs |-> NoPost]
    /\ arg = [c \in Procs |-> 0]
    /\ urn = [c \in Procs |-> 0]
    /\ response = [c \in Procs |-> NoResponse]
    /\ due = [c \in Windows |-> {}]
    /\ published = [c \in Windows |-> 0]
    /\ quota = [c \in Windows |-> [count |-> 0, err |-> FALSE]]
    /\ result = [c \in Operators |-> "none"]
    /\ overQuota = [c \in Windows |-> FALSE]
    /\ windowPublishedToday = 0

NextPublish ==
    \/ \E c \in Operators : PublishRead(c)
    \/ \E c \in Operators : PublishMark(c)
    \/ \E c \in Operators, resp \in Responses : PublishCallOn(c, resp, MaxAttempts)
    \/ \E c \in Operators : PublishSaveFailed(c)
    \/ \E c \in Operators : PublishSaveOk(c)
    \/ \E c \in Operators, lookupErr \in BOOLEAN : PublishTopicOn(c, lookupErr)
    \/ \E c \in Operators : SchedulePostRead(c)
    \/ \E c \in Operators : SchedulePostWrite(c)
    \/ \E c \in Operators : CliPublish(c, 1)
    \/ \E c \in Operators, at \in 1..MaxTime : CliSchedule(c, 1, at)
    \/ Tick

SpecPublish == InitPublish /\ [][NextPublish]_vars

\* Publish on a repository whose updates can fail
NextStore ==
    \/ \E c \in Operators : PublishRead(c)
    \/ \E c \in Operators, updateErr \in BOOLEAN : PublishMarkOn(c, updateErr)
    \/ \E c \in Operators, resp \in Responses : PublishCallOn(c, resp, MaxAttempts)
    \/ \E c \in Operators, updateErr \in BOOLEAN : PublishSaveFailedOn(c, updateErr)
    \/ \E c \in Operators, updateErr \in BOOLEAN : PublishSaveOkOn(c, updateErr)
    \/ \E c \in Operators, lookupErr \in BOOLEAN : PublishTopicOn(c, lookupErr)
    \/ \E c \in Operators : CliPublish(c, 1)
    \/ Tick

SpecStore == InitPublish /\ [][NextStore]_vars

----------------------------------------------------------------------------
(* GenerateDigest and the digest callback of the scheduler *)

\* the hashtags the generation function returns
HashtagLists == {<< >>, <<"#ai">>, <<"go", "">>}

\* the loop that appends the hashtags: tag[0] of an empty tag is out of range
AppendHashtags(tags) ==
    IF \E i \in 1..Len(tags) : tags[i] = "" THEN "panic" ELSE "ok"

\* the rows sqlite's GetTopTopics selects from:
\* status = approved AND ai_score >= minScore
SqliteGetTopTopics(minScore) ==
    {i \in 1..Len(topics) : /\ topics[i].score >= minScore
                            /\ topics[i].status = TopicStatusApproved}

\* the rows Sheets' GetTopTopics selects from:
\* t.AIScore >= minScore && t.Status == models.TopicStatusPending
SheetsGetTopTopics(minScore) ==
    {i \in 1..Len(topics) : /\ topics[i].score >= minScore
                            /\ topics[i].status = TopicStatusPending}

Eligible(minScore) ==
    IF backend = "sqlite" THEN SqliteGetTopTopics(minScore)
                          ELSE SheetsGetTopTopics(minScore)

\* the first of the topics ordered by score, descending
Top(minScore) ==
    {i \in Eligible(minScore) : \A j \in Eligible(minScore) : topics[i].score >= topics[j].score}

\* an auto-schedule that sets the status only
StatusOnly(post, at) == [post EXCEPT !.status = PostStatusScheduled]

\* post.Status = models.PostStatusScheduled; post.ScheduledFor = &now
AutoSchedule(post, at) == [post EXCEPT !.status = PostStatusScheduled, !.sched = at]

\* GenerateDigest up to CreatePost; with fewer than 3 topics or a failed
\* generation it returns an error and nothing changes
GenerateDigest(c, tags) ==
    /\ pc[c] = "idle"
    /\ Len(posts) + 1 \in PostIds
    /\ Cardinality(Eligible(MinScoreThreshold)) >= 3
    /\ IF AppendHashtags(tags) = "panic"
       THEN /\ pc' = [pc EXCEPT ![c] = "panic"]
            /\ daemon' = "crashed"
            /\ UNCHANGED <<posts, cur, lp>>
       ELSE /\ \E i \in Top(MinScoreThreshold) :
                 LET post == [NoPost EXCEPT !.status = PostStatusDraft,
                                            !.topic = topics[i].id]
                 IN /\ posts' = Append(posts, post)
                    /\ lp' = [lp EXCEPT ![c] = post]
            /\ cur' = [cur EXCEPT ![c] = Len(posts) + 1]
            /\ pc' = [pc EXCEPT ![c] = IF AutoApprove THEN "digest_promote" ELSE "digest_check"]
            /\ UNCHANGED daemon
    /\ UNCHANGED <<commenter, backend, fallbackToText, AutoApprove, signal, services,
                   discovery, now, topics, platform, arg, call, window, published, result, history>>

\* GenerateDigest: auto-schedule if enabled
GenerateDigestPromote(c) ==
    /\ pc[c] = "digest_promote"
    /\ LET post == AutoSchedule(lp[c], now)
       IN /\ posts' = UpdatePost(cur[c], post)
          /\ lp' = [lp EXCEPT ![c] = post]
    /\ Goto(c, "digest_check")
    /\ UNCHANGED <<config, commenter, services, discovery, now, topics, platform, cur, arg, call, window,
                   published, result, history>>

\* the callback schedules the digest unless GenerateDigest already did
DigestCallback(c) ==
    /\ pc[c] = "digest_check"
    /\ IF lp[c].status # PostStatusScheduled
       THEN /\ Goto(c, "sched_read")
            /\ arg' = [arg EXCEPT ![c] = now]
            /\ UNCHANGED <<cur, lp, call, result>>
       ELSE Return(c, "ok")
    /\ UNCHANGED <<config, commenter, services, discovery, now, topics, posts, platform, window, published,
                   history>>

TopicScores == <<70, 80, 90>>

InitGenerate ==
    /\ backend \in {"sqlite", "sheets"}
    /\ fallbackToText = TRUE
    /\ AutoApprove \in BOOLEAN
    /\ daemon = "running"
    /\ signal = FALSE
    /\ InitCommenter
    /\ now = 1
    /\ \E status \in {TopicStatusPending, TopicStatusApproved} :
          topics = [i \in 1..3 |->
                      [id |-> i, ext |-> GenerateExternalID("rss", "u" \o ToString(i)),
                       status |-> status, score |-> TopicScores[i]]]
    /\ posts = << >>
    /\ dpc = [r \in Runners |-> "idle"]
    /\ raw = [r \in Runners |-> << >>]
    /\ seen = [r \in Runners |-> {}]
    /\ unique = [r \in Runners |-> << >>]
    /\ ranked = [r \in Runners |-> << >>]
    /\ nextTopicID = [r \in Runners |-> 4]
    /\ runs = 0
    /\ feed = << >>
    /\ fapc = "idle"
    /\ fpc = [s \in Sources |-> "idle"]
    /\ fres = [s \in Sources |-> NoFetch]
    /\ results = << >>
    /\ received = 0
    /\ allTopics = << >>
    /\ fetchErrors = << >>
    /\ cancelled = FALSE
    /\ limiters = [n \in Names |-> NoLimiter]
    /\ clock = 0
    /\ lpc = [c \in Callers |-> "idle"]
    /\ lop = [c \in Callers |-> ""]
    /\ lname = [c \in Callers |-> ""]
    /\ lctx = [c \in Callers |-> FALSE]
    /\ lres = [c \in Callers |-> "none"]
    /\ granted = [n \in Names |-> << >>]
    /\ cpc = [c \in Callers |-> "idle"]
    /\ cop = [c \in Callers |-> ""]
    /\ plan = [c \in Callers |-> << >>]
    /\ requests = << >>
    /\ cres = [c \in Callers |-> "none"]
    /\ dres = [r \in Runners |-> NoResult]
    /\ created = [p \in PostIds |-> 0]
    /\ pc = [c \in Procs |-> "idle"]
    /\ cur = [c \in Procs |-> 0]
    /\ lp = [c \in Procs |-> NoPost]
    /\ arg = [c \in Procs |-> 0]
    /\ urn = [c \in Procs |-> 0]
    /\ response = [c \in Procs |-> NoResponse]
    /\ due = [c \in Windows |-> {}]
    /\ published = [c \in Windows |-> 0]
    /\ quota = [c \in Windows |-> [count |-> 0, err |-> FALSE]]
    /\ result = [c \in Operators |-> "none"]
    /\ overQuota = [c \in Windows |-> FALSE]
    /\ windowPublishedToday = 0

Schedulers == Operators \cup Crons

NextGenerate ==
    \/ \E c \in Operators, t \in 1..3 : GenerateContent(c, t, AutoApprove)
    \/ \E c \in Operators : GenerateContentPromote(c)
    \/ \E c \in Crons, tags \in HashtagLists : GenerateDigest(c, tags)
    \/ \E c \in Crons : GenerateDigestPromote(c)
    \/ \E c \in Crons : DigestCallback(c)
    \/ \E c \in Schedulers : SchedulePostRead(c)
    \/ \E c \in Schedulers : SchedulePostWrite(c)
    \/ \E c \in Operators : ApprovePostRead(c)
    \/ \E c \in Operators : ApprovePostWrite(c)
    \/ \E c \in Operators, p \in 1..2, at \in 1..MaxTime : CliSchedule(c, p, at)
    \/ \E c \in Operators, p \in 1..2 : CliApprove(c, p)
    \/ Tick

SpecGenerate == InitGenerate /\ [][NextGenerate]_vars

----------------------------------------------------------------------------
(* Discovery: Run and RunForSource fetch, deduplicate, rank and save.       *)
(* Every repository call and the ranking call are one step each.            *)

RawTopics == [type : Sources, url : Urls]

SeqsUpTo(S, n) == UNION {[1..k -> S] : k \in 0..n}

MaxTopicID ==
    IF topics = << >> THEN 0
    ELSE LET ids == {topics[i].id : i \in 1..Len(topics)}
         IN CHOOSE m \in ids : \A k \in ids : k <= m

\* The CLI is a new process on every command: its Sheets repository starts
\* with nextTopicID = 1 and Migrate raises it above the IDs in the sheet.
initNextIDs(r) ==
    IF r = "cli" /\ backend = "sheets"
    THEN [nextTopicID EXCEPT ![r] = IF MaxTopicID >= 1 THEN MaxTopicID + 1 ELSE 1]
    ELSE nextTopicID

StartRunWith(r, items, res) ==
    /\ runs' = runs + 1
    /\ nextTopicID' = initNextIDs(r)
    /\ feed' = items
    /\ raw' = [raw EXCEPT ![r] = items]
    /\ seen' = [seen EXCEPT ![r] = {}]
    /\ unique' = [unique EXCEPT ![r] = << >>]
    /\ ranked' = [ranked EXCEPT ![r] = << >>]
    /\ dres' = [dres EXCEPT ![r] = res]

StartRun(r, items, err) ==
    StartRunWith(r, items, [NoResult EXCEPT !.found = Len(items), !.err = err])

\* Run: FetchAll concatenates what the sources returned; with no raw topic
\* the run ends at once.
Run(r, items) ==
    /\ dpc[r] = "idle"
    /\ runs < MaxRuns
    /\ StartRun(r, items, FALSE)
    /\ dpc' = [dpc EXCEPT ![r] = IF Len(items) = 0 THEN "idle" ELSE "dedup"]
    /\ UNCHANGED <<config, commenter, services, topics, publisher>>

\* RunForSource: an unknown source or a failed fetch ends the run with an
\* error; otherwise the source's topics go through the same steps.
RunForSource(r, sourceName, fetchErr, items) ==
    /\ dpc[r] = "idle"
    /\ runs < MaxRuns
    /\ \A i \in 1..Len(items) : items[i].type = sourceName
    /\ IF sourceName \notin Sources \/ fetchErr
       THEN /\ StartRun(r, << >>, TRUE)
            /\ UNCHANGED dpc
       ELSE /\ StartRun(r, items, FALSE)
            /\ dpc' = [dpc EXCEPT ![r] = IF items = << >> THEN "rank" ELSE "dedup"]
    /\ UNCHANGED <<config, commenter, services, topics, publisher>>

\* one iteration of deduplicateTopics' loop; the error of the lookup is
\* dropped, so a failed lookup reads as "not in the database"
deduplicateTopics(r) ==
    /\ dpc[r] = "dedup"
    /\ LET topic == Head(raw[r])
           externalID == GenerateExternalID(topic.type, topic.url)
           last == Tail(raw[r]) = << >>
       IN /\ raw' = [raw EXCEPT ![r] = Tail(raw[r])]
          /\ IF externalID \in seen[r]
             THEN /\ seen' = [seen EXCEPT ![r] = IF last THEN {} ELSE seen[r]]
                  /\ UNCHANGED unique
             ELSE \E lookupErr \in BOOLEAN :
                    LET existing == IF lookupErr THEN 0
                                    ELSE GetTopicByExternalID(externalID)
                    IN IF existing # 0
                       THEN /\ seen' = [seen EXCEPT ![r] = IF last THEN {} ELSE seen[r]]
                            /\ UNCHANGED unique
                       ELSE /\ seen' = [seen EXCEPT ![r] =
                                          IF last THEN {} ELSE seen[r] \cup {externalID}]
                            /\ unique' = [unique EXCEPT ![r] = Append(unique[r], topic)]
          /\ dpc' = [dpc EXCEPT ![r] = IF last THEN "rank" ELSE "dedup"]
    /\ UNCHANGED <<config, commenter, services, topics, ranked, nextTopicID, runs, feed, dres, publisher>>

\* a failed ranking call whose batch is kept all the same
KeptBatch(converted) == converted

\* a batch whose ranking call failed contributes no topic
FailedBatch(converted) == << >>

\* rankTopics, one ranking call (one batch of up to batchSize raw topics) per
\* step; the step that finds nothing left returns to Run, which takes
\* len(rankedTopics) as TopicsRanked.  rankings[j] = 0: no ranking for item j.
Convert(r, ok, rankings) ==
    /\ dpc[r] = "rank"
    /\ LET n == IF Len(unique[r]) < batchSize THEN Len(unique[r]) ELSE batchSize
           batch == SubSeq(unique[r], 1, n)
           rest == SubSeq(unique[r], n + 1, Len(unique[r]))
           converted == [j \in 1..n |->
                           [id |-> 0,
                            ext |-> GenerateExternalID(batch[j].type, batch[j].url),
                            status |-> TopicStatusPending,
                            score |-> IF j <= Len(rankings) THEN rankings[j] ELSE 0]]
           out == ranked[r] \o (IF ok THEN converted ELSE FailedBatch(converted))
       IN /\ n = 0 => ok
          /\ unique' = [unique EXCEPT ![r] = rest]
          /\ ranked' = [ranked EXCEPT ![r] = out]
          /\ dres' = [dres EXCEPT
                ![r].errors = IF ok THEN @ ELSE @ + 1,
                ![r].batches = IF n = 0 THEN @ ELSE Append(@, ok),
                ![r].ranked = IF rest = << >> THEN Len(out) ELSE @]
          /\ dpc' = [dpc EXCEPT ![r] = IF rest # << >> THEN "rank"
                                       ELSE IF out = << >> THEN "idle" ELSE "save"]
    /\ UNCHANGED <<config, commenter, services, topics, raw, seen, nextTopicID, runs, feed, publisher>>

\* the batch of the next ranking call
Batch(r) ==
    SubSeq(unique[r], 1, IF Len(unique[r]) < batchSize THEN Len(unique[r]) ELSE batchSize)

\* a ranking call that returns one ranking (or none: 0) per item of the batch
rankTopics(r, ok, rankings) ==
    /\ Len(rankings) = Len(Batch(r))
    /\ Convert(r, ok, rankings)

\* the score the scoring function gives a raw topic: any function of the
\* topic that tells the items of a feed apart
Scorer(rawTopic) ==
    50 + CHOOSE i \in 1..(MaxFeed + 1) : rawTopic.url = "u" \o ToString(i)

\* ai.Client.RankTopics: up to 3 topics are ranked one by one and a topic
\* whose RankTopic fails is skipped; a larger batch is ranked in one call and
\* rankings[r.Index] is set for the indices the response names
RankTopics(batch, failed) ==
    LET byIndex == [j \in 1..Len(batch) |-> IF j \in failed THEN 0 ELSE Scorer(batch[j])]
    IN IF Len(batch) <= smallBatch
       THEN SelectSeq(byIndex, LAMBDA score : score # 0)
       ELSE byIndex

\* rankTopics with the ranking call spelled out: failed are the items of the
\* batch the scorer gives no ranking for, err is a failed batch call
rankScored(r, failed, err) ==
    /\ failed \subseteq 1..Len(Batch(r))
    /\ err => Len(Batch(r)) > smallBatch
    /\ Convert(r, ~err, RankTopics(Batch(r), failed))

\* a save loop that gives up at the first failed CreateTopic
StopAtFailure(rest, failed) == IF failed THEN << >> ELSE rest

\* the topics the save loop still has to go through after one CreateTopic
Remaining(rest, failed) == rest

\* CreateTopic of the next ranked topic.  sqlite: the unique index on
\* external_id rejects a second row; Sheets: the row is appended.
CreateTopic(r) ==
    /\ dpc[r] = "save"
    /\ LET topic == Head(ranked[r])
       IN \E appended \in BOOLEAN :
            LET failed == IF backend = "sqlite"
                          THEN GetTopicByExternalID(topic.ext) # 0
                          ELSE ~appended
                rest == Remaining(Tail(ranked[r]), failed)
            IN /\ backend = "sqlite" => appended
               /\ topics' = IF failed THEN topics
                            ELSE Append(topics,
                                   [topic EXCEPT !.id = IF backend = "sqlite"
                                                        THEN MaxTopicID + 1
                                                        ELSE nextTopicID[r]])
               /\ nextTopicID' = IF backend = "sqlite" THEN nextTopicID
                                 ELSE [nextTopicID EXCEPT ![r] = nextTopicID[r] + 1]
               /\ dres' = [dres EXCEPT ![r].saved = IF failed THEN @ ELSE @ + 1,
                                       ![r].skipped = IF failed THEN @ + 1 ELSE @]
               /\ ranked' = [ranked EXCEPT ![r] = rest]
               /\ dpc' = [dpc EXCEPT ![r] = IF rest = << >> THEN "idle" ELSE "save"]
    /\ UNCHANGED <<config, commenter, services, raw, seen, unique, runs, feed, publisher>>

InitDiscovery ==
    /\ backend \in {"sqlite", "sheets"}
    /\ fallbackToText = TRUE
    /\ AutoApprove = FALSE
    /\ daemon = "running"
    /\ signal = FALSE
    /\ InitCommenter
    /\ now = 1
    /\ topics = << >>
    /\ posts = << >>
    /\ created = [p \in PostIds |-> 0]
    /\ pc = [c \in Procs |-> "idle"]
    /\ cur = [c \in Procs |-> 0]
    /\ lp = [c \in Procs |-> NoPost]
    /\ arg = [c \in Procs |-> 0]
    /\ urn = [c \in Procs |-> 0]
    /\ response = [c \in Procs |-> NoResponse]
    /\ due = [c \in Windows |-> {}]
    /\ published = [c \in Windows |-> 0]
    /\ quota = [c \in Windows |-> [count |-> 0, err |-> FALSE]]
    /\ result = [c \in Operators |-> "none"]
    /\ overQuota = [c \in Windows |-> FALSE]
    /\ windowPublishedToday = 0
    /\ dpc = [r \in Runners |-> "idle"]
    /\ raw = [r \in Runners |-> << >>]
    /\ seen = [r \in Runners |-> {}]
    /\ unique = [r \in Runners |-> << >>]
    /\ ranked = [r \in Runners |-> << >>]
    /\ nextTopicID = [r \in Runners |-> 1]
    /\ runs = 0
    /\ feed = << >>
    /\ fapc = "idle"
    /\ fpc = [s \in Sources |-> "idle"]
    /\ fres = [s \in Sources |-> NoFetch]
    /\ results = << >>
    /\ received = 0
    /\ allTopics = << >>
    /\ fetchErrors = << >>
    /\ cancelled = FALSE
    /\ limiters = [n \in Names |-> NoLimiter]
    /\ clock = 0
    /\ lpc = [c \in Callers |-> "idle"]
    /\ lop = [c \in Callers |-> ""]
    /\ lname = [c \in Callers |-> ""]
    /\ lctx = [c \in Callers |-> FALSE]
    /\ lres = [c \in Callers |-> "none"]
    /\ granted = [n \in Names |-> << >>]
    /\ cpc = [c \in Callers |-> "idle"]
    /\ cop = [c \in Callers |-> ""]
    /\ plan = [c \in Callers |-> << >>]
    /\ requests = << >>
    /\ cres = [c \in Callers |-> "none"]
    /\ dres = [r \in Runners |-> NoResult]

NextDiscovery ==
    \/ \E r \in Runners, items \in SeqsUpTo(RawTopics, MaxItems) : Run(r, items)
    \/ \E sourceName \in Sources \cup {"unknown"}, fetchErr \in BOOLEAN,
          items \in SeqsUpTo(RawTopics, MaxItems) :
          RunForSource("cli", sourceName, fetchErr, items)
    \/ \E r \in Runners : deduplicateTopics(r)
    \/ \E r \in Runners, ok \in BOOLEAN, rankings \in SeqsUpTo(Scores, MaxItems) :
          rankTopics(r, ok, rankings)
    \/ \E r \in Runners : CreateTopic(r)

SpecDiscovery == InitDiscovery /\ [][NextDiscovery]_vars

\* Run on a manager whose only registered source is sourceName: FetchAll
\* returns the source's topics, or no topic and the source's error, which Run
\* appends to result.Errors; with no raw topic the run ends at once.
RunSingle(r, sourceName, fetchErr, items) ==
    /\ dpc[r] = "idle"
    /\ runs < MaxRuns
    /\ \A i \in 1..Len(items) : items[i].type = sourceName
    /\ LET rawTopics == IF fetchErr THEN << >> ELSE items
       IN /\ StartRunWith(r, rawTopics, [NoResult EXCEPT !.found = Len(rawTopics),
                                                         !.errors = IF fetchErr THEN 1 ELSE 0])
          /\ dpc' = [dpc EXCEPT ![r] = IF Len(rawTopics) = 0 THEN "idle" ELSE "dedup"]
    /\ UNCHANGED <<config, commenter, services, topics, publisher>>

\* the two entry points of discovery on a manager with one source, "hn"
NextSource ==
    \/ \E r \in Runners, fetchErr \in BOOLEAN, items \in SeqsUpTo(RawTopics, MaxItems) :
          RunSingle(r, "hn", fetchErr, items)
    \/ \E r \in Runners, fetchErr \in BOOLEAN, items \in SeqsUpTo(RawTopics, MaxItems) :
          RunForSource(r, "hn", fetchErr, items)
    \/ \E r \in Runners : deduplicateTopics(r)
    \/ \E r \in Runners, ok \in BOOLEAN, rankings \in SeqsUpTo(Scores, MaxItems) :
          rankTopics(r, ok, rankings)
    \/ \E r \in Runners : CreateTopic(r)

SpecSource == InitDiscovery /\ [][NextSource]_vars

\* the keywords the custom source is configured with
KeywordLists == {<< >>, <<"ai">>, <<"ai", "go">>, <<"go", "ai", "llm">>}

\* custom.Source.Fetch: one raw topic per keyword, the keyword as its title
\* and no URL
CustomFetch(keywords) ==
    [i \in 1..Len(keywords) |-> [type |-> "custom", url |-> "", title |-> keywords[i]]]

\* a discovery run on a manager whose source is the custom keyword source
RunCustom(r, keywords) == Run(r, CustomFetch(keywords))

NextCustom ==
    \/ \E keywords \in KeywordLists : RunCustom("cron", keywords)
    \/ deduplicateTopics("cron")
    \/ \E ok \in BOOLEAN, rankings \in SeqsUpTo(Scores, MaxItems + 1) :
          rankTopics("cron", ok, rankings)
    \/ CreateTopic("cron")

SpecCustom == InitDiscovery /\ [][NextCustom]_vars

\* The scheduled discovery run, twice in sequence, the sources returning
\* the same items both times.
RunAgain(r, items) ==
    /\ runs = 0 \/ items = feed
    /\ Run(r, items)

NextRerun ==
    \/ \E items \in SeqsUpTo(RawTopics, MaxItems) : RunAgain("cron", items)
    \/ deduplicateTopics("cron")
    \/ \E ok \in BOOLEAN, rankings \in SeqsUpTo(Scores, MaxItems) :
          rankTopics("cron", ok, rankings)
    \/ CreateTopic("cron")

SpecRerun == InitDiscovery /\ [][NextRerun]_vars

\* One run over a feed of n distinct items, long enough for several ranking
\* batches; a ranking call scores all items of its batch alike.
Feed(n) == [i \in 1..n |-> [type |-> "hn", url |-> "u" \o ToString(i)]]

RunFeed(r, n) ==
    /\ runs = 0
    /\ Run(r, Feed(n))

NextBatch ==
    \/ \E n \in 0..MaxFeed : RunFeed("cron", n)
    \/ deduplicateTopics("cron")
    \/ \E ok \in BOOLEAN, k \in 0..batchSize, score \in Scores :
          rankTopics("cron", ok, [j \in 1..k |-> score])
    \/ CreateTopic("cron")

SpecBatch == InitDiscovery /\ [][NextBatch]_vars

\* the items of a batch the scorer gives no ranking for
FailedSets == {failed \in SUBSET (1..batchSize) : Cardinality(failed) <= MaxFailed}

\* one discovery run over a feed of 0..MaxFeed distinct items
NextScore ==
    \/ \E n \in 0..MaxFeed : RunFeed("cron", n)
    \/ deduplicateTopics("cron")
    \/ \E failed \in FailedSets, err \in BOOLEAN : rankScored("cron", failed, err)
    \/ CreateTopic("cron")

SpecScore == InitDiscovery /\ [][NextScore]_vars

----------------------------------------------------------------------------
(* FetchAll: one goroutine per source sends its result on a channel of      *)
(* capacity len(m.sources); the caller receives len(m.sources) results.     *)

\* make(chan result, len(m.sources))
Capacity == Cardinality(Sources)

\* what a source's Fetch can return: an error, or some of its topics
FetchOutcomes(s) ==
    {[source |-> s, topics |-> << >>, err |-> TRUE]} \cup
    {[source |-> s, topics |-> ts, err |-> FALSE] :
        ts \in SeqsUpTo({t \in RawTopics : t.type = s}, MaxItems)}

\* a merge in which a failed source discards what was collected so far
MergeOrReset(all, r) == IF r.err THEN << >> ELSE all \o r.topics

\* allTopics after the result r was received
Merge(all, r) == IF r.err THEN all ELSE all \o r.topics

FetchAll ==
    /\ fapc = "idle"
    /\ fapc' = "collect"
    /\ fpc' = [s \in Sources |-> "fetch"]
    /\ UNCHANGED <<config, commenter, limiter, client, discovery, topics, publisher, fres, results, received,
                   allTopics, fetchErrors, cancelled>>

\* s.Fetch(ctx) returns; a source may or may not look at ctx
Fetch(s, out) ==
    /\ fpc[s] = "fetch"
    /\ fres' = [fres EXCEPT ![s] = [source |-> out.source, topics |-> out.topics,
                                     err |-> out.err, late |-> cancelled]]
    /\ fpc' = [fpc EXCEPT ![s] = "send"]
    /\ UNCHANGED <<config, commenter, limiter, client, discovery, topics, publisher, fapc, results, received,
                   allTopics, fetchErrors, cancelled>>

\* results <- result{...}: blocks while the channel is full
Send(s) ==
    /\ fpc[s] = "send"
    /\ Len(results) < Capacity
    /\ results' = Append(results, fres[s])
    /\ fpc' = [fpc EXCEPT ![s] = "done"]
    /\ UNCHANGED <<config, commenter, limiter, client, discovery, topics, publisher, fapc, fres, received,
                   allTopics, fetchErrors, cancelled>>

\* r := <-results, once per source; after the last one FetchAll returns
Receive ==
    /\ fapc = "collect"
    /\ results # << >>
    /\ LET r == Head(results)
       IN /\ allTopics' = Merge(allTopics, r)
          /\ fetchErrors' = IF r.err THEN Append(fetchErrors, r.source) ELSE fetchErrors
    /\ results' = Tail(results)
    /\ received' = received + 1
    /\ fapc' = IF received + 1 = Cardinality(Sources) THEN "returned" ELSE "collect"
    /\ UNCHANGED <<config, commenter, limiter, client, discovery, topics, publisher, fpc, fres, cancelled>>

\* the caller's context is cancelled while FetchAll is collecting
Cancel ==
    /\ fapc = "collect"
    /\ ~cancelled
    /\ cancelled' = TRUE
    /\ UNCHANGED <<config, commenter, limiter, client, discovery, topics, publisher, fapc, fpc, fres, results,
                   received, allTopics, fetchErrors>>

NextFetch ==
    \/ FetchAll
    \/ \E s \in Sources : \E out \in FetchOutcomes(s) : Fetch(s, out)
    \/ \E s \in Sources : Send(s)
    \/ Receive
    \/ Cancel

SpecFetch == InitDiscovery /\ [][NextFetch]_vars

----------------------------------------------------------------------------
(* MultiLimiter: a map from service names to token buckets.  The bucket is  *)
(* a token bucket in whole ticks: tokens accrue at rate per tick up to      *)
(* burst, a permitted call takes one token, Wait blocks until a token is    *)
(* there or its context is cancelled.                                       *)

others == <<config, commenter, fanout, discovery, topics, publisher, client>>

NewLimiter(r, b) == [reg |-> TRUE, rate |-> r, burst |-> b, tokens |-> b]

\* m.limiters[name] = rate.NewLimiter(rate.Limit(requestsPerSecond), burst)
AddLimiter(name, requestsPerSecond, burst) ==
    /\ limiters' = [limiters EXCEPT ![name] = NewLimiter(requestsPerSecond, burst)]
    /\ UNCHANGED <<others, clock, lpc, lop, lname, lctx, lres, granted>>

\* NewDefaultLimiter registers the service once, when the process starts
NewDefaultLimiter(requestsPerSecond, burst) ==
    /\ ~limiters[LimiterLinkedIn].reg
    /\ \A c \in Callers : lpc[c] = "idle"
    /\ AddLimiter(LimiterLinkedIn, requestsPerSecond, burst)

\* a lookup that finds every name
AlwaysFound(name) == FALSE

\* limiter, ok := m.limiters[name]; !ok
NotFound(name) == ~limiters[name].reg

Take(name) == [limiters EXCEPT ![name].tokens = @ - 1]

Permit(name) == [granted EXCEPT ![name] = Append(@, clock)]

\* a Wait that hands the limiter a context that is never cancelled
Background(ctx) == FALSE

\* the context Wait hands to the limiter: limiter.Wait(ctx)
WaitContext(ctx) == ctx

\* c.rateLimiter.Wait(ctx, name), as one step of its caller
rateLimiterWait(c, name) ==
    /\ lpc[c] = "idle"
    /\ IF NotFound(name)
       THEN /\ lres' = [lres EXCEPT ![c] = "limiter not found"]
            /\ UNCHANGED <<lpc, lctx>>
       ELSE /\ lpc' = [lpc EXCEPT ![c] = "waiting"]
            /\ lctx' = [lctx EXCEPT ![c] = FALSE]
            /\ lres' = [lres EXCEPT ![c] = "none"]
    /\ lop' = [lop EXCEPT ![c] = "Wait"]
    /\ lname' = [lname EXCEPT ![c] = name]
    /\ UNCHANGED <<limiters, clock, granted>>

Wait(c, name) ==
    /\ rateLimiterWait(c, name)
    /\ UNCHANGED others

\* the blocked Wait gets its token
WaitGranted(c) ==
    /\ lpc[c] = "waiting"
    /\ limiters[lname[c]].tokens >= 1
    /\ limiters' = Take(lname[c])
    /\ granted' = Permit(lname[c])
    /\ lpc' = [lpc EXCEPT ![c] = "idle"]
    /\ lres' = [lres EXCEPT ![c] = "ok"]
    /\ UNCHANGED <<others, clock, lop, lname, lctx>>

\* the caller's context is cancelled while its Wait is blocked
CancelWait(c) ==
    /\ lpc[c] = "waiting"
    /\ ~lctx[c]
    /\ lctx' = [lctx EXCEPT ![c] = TRUE]
    /\ UNCHANGED <<others, limiters, clock, lpc, lop, lname, lres, granted>>

\* the blocked Wait sees the cancellation
WaitCancelled(c) ==
    /\ lpc[c] = "waiting"
    /\ WaitContext(lctx[c])
    /\ lpc' = [lpc EXCEPT ![c] = "idle"]
    /\ lres' = [lres EXCEPT ![c] = "context canceled"]
    /\ UNCHANGED <<others, limiters, clock, lop, lname, lctx, granted>>

\* an Allow that permits the call whatever the limiter says
AlwaysAllowed(limiterAllows) == TRUE

\* return limiter.Allow()
AllowResult(limiterAllows) == limiterAllows

Allow(c, name) ==
    /\ lpc[c] = "idle"
    /\ IF NotFound(name)
       THEN /\ lres' = [lres EXCEPT ![c] = "false"]
            /\ UNCHANGED <<limiters, granted>>
       ELSE LET has == limiters[name].tokens >= 1
            IN /\ limiters' = IF has THEN Take(name) ELSE limiters
               /\ granted' = IF AllowResult(has) THEN Permit(name) ELSE granted
               /\ lres' = [lres EXCEPT ![c] = IF AllowResult(has) THEN "true" ELSE "false"]
    /\ lop' = [lop EXCEPT ![c] = "Allow"]
    /\ lname' = [lname EXCEPT ![c] = name]
    /\ UNCHANGED <<others, clock, lpc, lctx>>

\* Reserve takes a token that may only arrive later
Reserve(c, name) ==
    /\ lpc[c] = "idle"
    /\ IF NotFound(name)
       THEN /\ lres' = [lres EXCEPT ![c] = "limiter not found"]
            /\ UNCHANGED limiters
       ELSE /\ limiters[name].tokens > -MaxDebt
            /\ limiters' = Take(name)
            /\ lres' = [lres EXCEPT ![c] = "reservation"]
    /\ lop' = [lop EXCEPT ![c] = "Reserve"]
    /\ lname' = [lname EXCEPT ![c] = name]
    /\ UNCHANGED <<others, clock, lpc, lctx, granted>>

LimiterTick ==
    /\ clock < MaxClock
    /\ clock' = clock + 1
    /\ limiters' = [n \in Names |->
          IF limiters[n].reg
          THEN [limiters[n] EXCEPT !.tokens =
                  IF @ + limiters[n].rate > limiters[n].burst
                  THEN limiters[n].burst ELSE @ + limiters[n].rate]
          ELSE limiters[n]]
    /\ UNCHANGED <<others, lpc, lop, lname, lctx, lres, granted>>

NextLimiter ==
    \/ \E r \in 1..MaxRate, b \in 1..MaxBurst : NewDefaultLimiter(r, b)
    \/ \E c \in Callers, name \in Names : Wait(c, name)
    \/ \E c \in Callers : WaitGranted(c)
    \/ \E c \in Callers : CancelWait(c)
    \/ \E c \in Callers : WaitCancelled(c)
    \/ \E c \in Callers, name \in Names : Allow(c, name)
    \/ \E c \in Callers, name \in Names : Reserve(c, name)
    \/ LimiterTick

SpecLimiter == InitDiscovery /\ [][NextLimiter]_vars

(***************************************************************************)
(* The platform client.  Every operation is a sequence of HTTP requests;    *)
(* do waits on the rate limiter, fetches a token and sends one request.     *)
(* UploadImageToURL builds its own http.Client and sends the PUT itself.    *)
(***************************************************************************)

ClientOps == {"CreatePost", "CreatePoll", "UploadAndCreateImagePost",
              "CreateComment", "GetPostsByAuthor"}

\* GetProfile: c.do(ctx, "GET", "/userinfo", nil)
GetProfile == <<"do">>

\* CreatePostWithImage: GetProfile, then c.do(ctx, "POST", "/posts", postReq)
CreatePostWithImage == GetProfile \o <<"do">>

\* the requests of each operation, in the order the code makes them
Plan(op) ==
    CASE op = "CreatePost" -> GetProfile \o <<"do">>
      [] op = "CreatePoll" -> GetProfile \o <<"do">>
      [] op = "CreateComment" -> GetProfile \o <<"do">>
      [] op = "GetPostsByAuthor" -> <<"do">>
      [] op = "UploadAndCreateImagePost" ->
            GetProfile \o <<"doREST", "UploadImageToURL">> \o CreatePostWithImage

ClientCall(c, op) ==
    /\ cpc[c] = "idle"
    /\ lpc[c] = "idle"
    /\ Len(requests) < MaxRequests
    /\ cpc' = [cpc EXCEPT ![c] = "call"]
    /\ cop' = [cop EXCEPT ![c] = op]
    /\ plan' = [plan EXCEPT ![c] = Plan(op)]
    /\ cres' = [cres EXCEPT ![c] = "none"]
    /\ UNCHANGED <<config, commenter, fanout, limiter, discovery, topics, publisher, requests>>

\* do: c.rateLimiter.Wait(ctx, ratelimit.LimiterLinkedIn)
do(c) ==
    /\ cpc[c] = "call"
    /\ Head(plan[c]) = "do"
    /\ rateLimiterWait(c, LimiterLinkedIn)
    /\ cpc' = [cpc EXCEPT ![c] = "limited"]
    /\ UNCHANGED <<config, commenter, fanout, discovery, topics, publisher, cop, plan, requests, cres>>

\* doREST passes through the rate limiter as do does
doREST(c) ==
    /\ cpc[c] = "call"
    /\ Head(plan[c]) = "doREST"
    /\ rateLimiterWait(c, LimiterLinkedIn)
    /\ cpc' = [cpc EXCEPT ![c] = "limited"]
    /\ UNCHANGED <<config, commenter, fanout, discovery, topics, publisher, cop, plan, requests, cres>>

\* the operation returns an error
Fail(c, err) ==
    /\ cpc' = [cpc EXCEPT ![c] = "idle"]
    /\ plan' = [plan EXCEPT ![c] = << >>]
    /\ cres' = [cres EXCEPT ![c] = err]

\* the request succeeded: the operation goes on, or returns the identifier
Proceed(c) ==
    /\ plan' = [plan EXCEPT ![c] = Tail(@)]
    /\ IF Tail(plan[c]) = << >>
       THEN /\ cpc' = [cpc EXCEPT ![c] = "idle"]
            /\ cres' = [cres EXCEPT ![c] = "call"]
       ELSE /\ cpc' = [cpc EXCEPT ![c] = "call"]
            /\ UNCHANGED cres

Sent(c) == Append(requests, [caller |-> c, op |-> cop[c], by |-> Head(plan[c])])

\* do: Wait returned an error
RateLimitError(c) ==
    /\ cpc[c] = "limited"
    /\ lpc[c] = "idle"
    /\ lres[c] # "ok"
    /\ Fail(c, "rate limit error")
    /\ UNCHANGED <<config, commenter, fanout, limiter, discovery, topics, publisher, cop, requests>>

\* do, after Wait: GetValidToken, then c.httpClient.Do(req)
httpClientDo(c, out) ==
    /\ cpc[c] = "limited"
    /\ lpc[c] = "idle"
    /\ lres[c] = "ok"
    /\ requests' = IF out = "authentication error" THEN requests ELSE Sent(c)
    /\ IF out = "ok" THEN Proceed(c) ELSE Fail(c, out)
    /\ UNCHANGED <<config, commenter, fanout, limiter, discovery, topics, publisher, cop>>

\* httpClient := &http.Client{...}; httpClient.Do(req)
UploadImageToURL(c, out) ==
    /\ cpc[c] = "call"
    /\ Head(plan[c]) = "UploadImageToURL"
    /\ requests' = Sent(c)
    /\ IF out = "ok" THEN Proceed(c) ELSE Fail(c, out)
    /\ UNCHANGED <<config, commenter, fanout, limiter, discovery, topics, publisher, cop>>

NextClient ==
    \/ \E r \in 1..MaxRate, b \in 1..MaxBurst : NewDefaultLimiter(r, b)
    \/ \E c \in Callers, op \in ClientOps : ClientCall(c, op)
    \/ \E c \in Callers : do(c)
    \/ \E c \in Callers : doREST(c)
    \/ \E c \in Callers : RateLimitError(c)
    \/ \E c \in Callers, out \in {"ok", "authentication error", "request failed"} :
          httpClientDo(c, out)
    \/ \E c \in Callers, out \in {"ok", "upload failed"} : UploadImageToURL(c, out)
    \/ \E c \in Callers : WaitGranted(c)
    \/ \E c \in Callers : CancelWait(c)
    \/ \E c \in Callers : WaitCancelled(c)
    \/ LimiterTick

SpecClient == InitDiscovery /\ [][NextClient]_vars

----------------------------------------------------------------------------
(* The commenter: Agent.Run, fired by the comment-check cadence.  One Run   *)
(* at a time; every repository, AI and platform call is a step, and each    *)
(* of them can fail.                                                        *)

MaxCommentRuns == 3
MaxCommentsPerDay == 2

\* what discoverPosts, filterPostsByAge and rankPosts hand to the loop
Discovered == {<< >>, <<"urn1">>, <<"urn2">>, <<"urn1", "urn2">>, <<"urn2", "urn1">>}

\* Comments with status posted (created today: the clock does not move here)
GetTodayCommentCount ==
    Cardinality({i \in 1..Len(comments) : comments[i].status = CommentStatusPosted})

\* a failed query returns (nil, err) like a query that finds no row
GetCommentByTargetURN(targetURN, err) ==
    ~err /\ \E i \in 1..Len(comments) : comments[i].target = targetURN

\* Run up to the loop: enabled, active hours and canCommentNow (open), the
\* daily limit (a failed count is logged and the run goes on), discovery
CommenterRun(found, open, countErr) ==
    /\ kpc = "idle"
    /\ commentRuns < MaxCommentRuns
    /\ commentRuns' = commentRuns + 1
    /\ CommentsPosted' = 0
    /\ IF ~open \/ (~countErr /\ GetTodayCommentCount >= MaxCommentsPerDay)
       THEN kpc' = "idle" /\ candidates' = << >>
       ELSE kpc' = "loop" /\ candidates' = found
    /\ UNCHANGED <<config, services, discovery, topics, publisher, comments, comment, commentsOn>>

\* the loop's head: skip the post when a Comment for it exists
CommenterExisting(err) ==
    /\ kpc = "loop"
    /\ candidates # << >>
    /\ IF GetCommentByTargetURN(Head(candidates), err)
       THEN candidates' = Tail(candidates) /\ UNCHANGED kpc
       ELSE kpc' = "generate" /\ UNCHANGED candidates
    /\ UNCHANGED <<config, services, discovery, topics, publisher, comments, comment, CommentsPosted,
                   commentRuns, commentsOn>>

CommenterDone ==
    /\ kpc = "loop"
    /\ candidates = << >>
    /\ kpc' = "idle"
    /\ UNCHANGED <<config, services, discovery, topics, publisher, comments, candidates, comment,
                   CommentsPosted, commentRuns, commentsOn>>

\* generateAndPostCommentWithStyle up to repository.CreateComment
GenerateComment(genErr, createErr) ==
    /\ kpc = "generate"
    /\ IF genErr \/ createErr
       THEN /\ candidates' = Tail(candidates)
            /\ kpc' = "loop"
            /\ UNCHANGED <<comments, comment>>
       ELSE /\ comments' = Append(comments, [target |-> Head(candidates),
                                              status |-> CommentStatusPending])
            /\ comment' = [row |-> Len(comments) + 1, status |-> CommentStatusPending]
            /\ kpc' = "post"
            /\ UNCHANGED candidates
    /\ UNCHANGED <<config, services, discovery, topics, publisher, CommentsPosted, commentRuns,
                   commentsOn>>

\* linkedinClient.CreateComment
LinkedinCreateComment(err) ==
    /\ kpc = "post"
    /\ IF err
       THEN /\ comment' = [comment EXCEPT !.status = CommentStatusFailed]
            /\ UNCHANGED commentsOn
       ELSE /\ comment' = [comment EXCEPT !.status = CommentStatusPosted]
            /\ commentsOn' = [commentsOn EXCEPT ![Head(candidates)] = @ + 1]
    /\ kpc' = "save"
    /\ UNCHANGED <<config, services, discovery, topics, publisher, comments, candidates,
                   CommentsPosted, commentRuns>>

\* repository.UpdateComment, whose error is dropped or logged; after a
\* posted comment the loop breaks, after a failed one it continues
UpdateComment(err) ==
    /\ kpc = "save"
    /\ comments' = IF err THEN comments
                   ELSE [comments EXCEPT ![comment.row].status = comment.status]
    /\ IF comment.status = CommentStatusPosted
       THEN /\ CommentsPosted' = CommentsPosted + 1
            /\ candidates' = << >>
            /\ kpc' = "idle"
       ELSE /\ candidates' = Tail(candidates)
            /\ kpc' = "loop"
            /\ UNCHANGED CommentsPosted
    /\ comment' = NoComment
    /\ UNCHANGED <<config, services, discovery, topics, publisher, commentRuns, commentsOn>>

NextCommenter ==
    \/ \E found \in Discovered, open, countErr \in BOOLEAN : CommenterRun(found, open, countErr)
    \/ \E err \in BOOLEAN : CommenterExisting(err)
    \/ CommenterDone
    \/ \E genErr, createErr \in BOOLEAN : GenerateComment(genErr, createErr)
    \/ \E err \in BOOLEAN : LinkedinCreateComment(err)
    \/ \E err \in BOOLEAN : UpdateComment(err)

\* the Comment operations in the source are those of the SQLite repository
InitComments == InitDiscovery /\ backend = "sqlite"

SpecCommenter == InitComments /\ [][NextCommenter]_vars

----------------------------------------------------------------------------
(* Properties *)

Returned(c) == pc'[c] = IF c \in Windows THEN "psp_loop" ELSE "idle"

Moved(c, label) == pc[c] = label /\ pc'[c] # label

WritePcs == {"pub_mark", "pub_save", "sched_write", "appr_write", "gen_promote"}

Writes(c) == pc[c] \in WritePcs /\ pc'[c] # pc[c]

\* C1: once a post's persisted status is published, no operation changes it
\* to anything else.
C1_PublishedIsTerminal ==
    [][\A p \in 1..Len(posts) :
          posts[p].status = PostStatusPublished
              => posts'[p].status = PostStatusPublished]_vars

\* C2: the platform create call succeeds at most once for every post.
C2_CreatedAtMostOnce == \A p \in PostIds : created[p] <= 1

LegalEdges ==
    { <<PostStatusDraft, PostStatusScheduled>>,
      <<PostStatusScheduled, PostStatusPublishing>>,
      <<PostStatusPublishing, PostStatusPublished>>,
      <<PostStatusPublishing, PostStatusFailed>>,
      <<PostStatusFailed, PostStatusScheduled>> }

\* Publish and SchedulePost accept every post that is not published
AcceptedEdges ==
    LegalEdges \cup
    { <<PostStatusDraft, PostStatusPublishing>>,
      <<PostStatusFailed, PostStatusPublishing>>,
      <<PostStatusPublishing, PostStatusScheduled>> }

C4_PublishRejectsPublished ==
    [][\A c \in Procs :
          (/\ Moved(c, "pub_read")
           /\ Exists(cur[c])
           /\ posts[cur[c]].status = PostStatusPublished)
              => /\ Returned(c)
                 /\ c \in Operators => result'[c] = "post already published"
                 /\ c \in Windows => published'[c] = published[c]
                 /\ UNCHANGED <<posts, topics, created, windowPublishedToday>>]_vars

C4_Witness ==
    /\ result["cli"] = "post already published"
    /\ posts[1].status = PostStatusPublished

\* C5: SchedulePost of a post whose persisted status is published returns an
\* error and leaves the persisted post unchanged.
C5_ScheduleRejectsPublished ==
    [][\A c \in Operators :
          (/\ Moved(c, "sched_read")
           /\ Exists(cur[c])
           /\ posts[cur[c]].status = PostStatusPublished)
              => /\ Returned(c)
                 /\ result'[c] = "cannot schedule already published post"
                 /\ UNCHANGED <<posts, topics, created>>]_vars

C5_Witness ==
    /\ result["cli"] = "cannot schedule already published post"
    /\ posts[1].status = PostStatusPublished

\* C6: ApprovePost succeeds only from draft, and then the post becomes
\* scheduled with scheduled_for = now; from every other status it returns an
\* error and leaves the persisted post unchanged.
C6_ApproveOnlyFromDraft ==
    [][\A c \in Operators :
          /\ (Moved(c, "appr_read") /\ Exists(cur[c]))
                => IF posts[cur[c]].status = PostStatusDraft
                   THEN pc'[c] = "appr_write" /\ UNCHANGED posts
                   ELSE /\ Returned(c)
                        /\ result'[c] = "can only approve draft posts"
                        /\ UNCHANGED <<posts, topics, created>>
          /\ Moved(c, "appr_write")
                => /\ lp[c].status = PostStatusDraft
                   /\ posts'[cur[c]].status = PostStatusScheduled
                   /\ posts'[cur[c]].sched = now
                   /\ result'[c] = "approved"]_vars

C6_Witness ==
    /\ result["cli"] = "approved"
    /\ posts[1].status = PostStatusScheduled
    /\ posts[1].sched = now

\* C7: the posts the publish windows publish in one day never exceed
\* max_posts_per_day.
C7_DailyCeiling == windowPublishedToday <= MaxPostsPerDay

\* C8: a ProcessScheduledPosts invoked when max_posts_per_day posts were
\* already published today publishes no post.
C8_NoPublishOverQuota == \A w \in Windows : overQuota[w] => published[w] = 0

\* C9: the window callback reads today's count right before it invokes
\* ProcessScheduledPosts; when the count is at or above max_posts_per_day it
\* returns without invoking it, without a platform call or a status change.
C9_WindowChecksQuota ==
    [][\A w \in Windows :
          /\ (pc[w] = "idle" /\ pc'[w] # "idle")
                => /\ pc'[w] = "checked"
                   /\ ~quota'[w].err => quota'[w].count = GetTodayPublishCount
          /\ (/\ Moved(w, "checked")
              /\ ~quota[w].err
              /\ quota[w].count >= MaxPostsPerDay)
                => /\ pc'[w] = "idle"
                   /\ UNCHANGED <<posts, topics, created, due, published>>
          /\ (pc[w] # "psp_loop" /\ pc'[w] = "psp_loop" /\ cur[w] = 0)
                => /\ pc[w] = "checked"
                   /\ quota[w].err \/ quota[w].count < MaxPostsPerDay]_vars

C9_Witness ==
    \E w \in Windows :
        /\ pc[w] = "idle"
        /\ ~quota[w].err
        /\ quota[w].count >= MaxPostsPerDay
        /\ \E p \in 1..Len(posts) : posts[p].status = PostStatusScheduled

\* C10: no two persisted Topics have the same external identifier.
C10_ExternalIDUnique ==
    \A i, j \in 1..Len(topics) : topics[i].ext = topics[j].ext => i = j

\* C11: in the second of two sequential runs with identical source output,
\* found is the number of fetched items and no identifier that is already
\* persisted is saved again.
C11_RerunSavesNothing ==
    [][/\ (runs = 1 /\ runs' = 2) => dres'["cron"].found = Len(feed)
       /\ (/\ runs = 2
           /\ dpc["cron"] = "save"
           /\ ranked'["cron"] # ranked["cron"]
           /\ GetTopicByExternalID(Head(ranked["cron"]).ext) # 0)
             => /\ topics' = topics
                /\ dres'["cron"].saved = dres["cron"].saved]_vars

\* C12: an item whose external identifier is already persisted is never part
\* of a ranking call or of a CreateTopic, and persisted Topics never change.
C12_NoRescore ==
    [][/\ \A i \in 1..Len(topics) : topics'[i] = topics[i]
       /\ (dpc["cron"] = "rank" /\ unique'["cron"] # unique["cron"])
             => \A j \in 1..(Len(unique["cron"]) - Len(unique'["cron"])) :
                   GetTopicByExternalID(
                       GenerateExternalID(unique["cron"][j].type,
                                          unique["cron"][j].url)) = 0
       /\ (dpc["cron"] = "save" /\ ranked'["cron"] # ranked["cron"])
             => GetTopicByExternalID(Head(ranked["cron"]).ext) = 0]_vars

\* the items of the feed that belong to batches whose ranking call succeeded
KeptItems(batches) ==
    {i \in 1..Len(feed) : batches[((i - 1) \div batchSize) + 1]}

\* C13: whatever ranking calls fail, Run returns no run-level error, records
\* one error per failed batch, ranks exactly the items of the batches whose
\* call succeeded (so ranked < found when some batch failed) and attempts to
\* persist each of them.
C13_PartialRanking ==
    (runs = 1 /\ dpc["cron"] \in {"save", "idle"} /\ Len(feed) > 0) =>
        LET res == dres["cron"]
            kept == KeptItems(res.batches)
            nth(k) == CHOOSE i \in kept : Cardinality({j \in kept : j <= i}) = k
        IN /\ ~res.err
           /\ Len(res.batches) = ((Len(feed) - 1) \div batchSize) + 1
           /\ res.errors = Cardinality({b \in 1..Len(res.batches) : ~res.batches[b]})
           /\ res.ranked = Cardinality(kept)
           /\ res.errors > 0 => res.ranked < res.found
           /\ res.saved + res.skipped + Len(ranked["cron"]) = res.ranked
           /\ \A k \in 1..Len(ranked["cron"]) :
                 LET i == nth(res.saved + res.skipped + k)
                 IN ranked["cron"][k].ext
                       = GenerateExternalID(feed[i].type, feed[i].url)
           /\ dpc["cron"] = "idle" => ranked["cron"] = << >>

C13_Witness ==
    /\ dpc["cron"] = "idle"
    /\ dres["cron"].batches = <<FALSE, TRUE>>
    /\ dres["cron"].found = batchSize + 1
    /\ dres["cron"].saved = 1
    /\ Len(topics) = 1

\* C14: every ranked Topic gets exactly one CreateTopic attempt, a failed
\* one counting as skipped and a successful one as saved, so a run that
\* returns a result has saved + skipped = ranked and ranked <= found.
C14_SaveLoopCounts ==
    [][\A r \in Runners :
          /\ (dpc[r] = "save" /\ ranked'[r] # ranked[r])
                => /\ ranked'[r] = Tail(ranked[r])
                   /\ dres'[r].saved + dres'[r].skipped
                         = dres[r].saved + dres[r].skipped + 1
                   /\ IF dres'[r].saved = dres[r].saved + 1
                      THEN /\ Len(topics') = Len(topics) + 1
                           /\ SubSeq(topics', 1, Len(topics)) = topics
                           /\ topics'[Len(topics')].ext = Head(ranked[r]).ext
                      ELSE /\ topics' = topics
                           /\ dres'[r].skipped = dres[r].skipped + 1
          /\ (dpc[r] # "idle" /\ dpc'[r] = "idle")
                => /\ dres'[r].saved + dres'[r].skipped = dres'[r].ranked
                   /\ dres'[r].ranked <= dres'[r].found]_vars

C14_Witness ==
    /\ backend = "sheets"
    /\ runs = 1
    /\ dpc["cron"] = "idle"
    /\ dres["cron"].ranked = 2
    /\ dres["cron"].skipped = 1
    /\ dres["cron"].saved = 1
    /\ Len(topics) = 1
    /\ topics[1].ext = GenerateExternalID(feed[2].type, feed[2].url)

\* the topics of the sources in S, in the order FetchAll received them
Flatten(order) ==
    LET F[k \in 0..Len(order)] ==
            IF k = 0 THEN << >> ELSE F[k - 1] \o fres[order[k]].topics
    IN F[Len(order)]

\* C15: FetchAll starts one fetch per source, a fetch never blocks on
\* delivering its result, and FetchAll returns only after one result from
\* every source, with exactly the topics of the sources that succeeded and
\* one error per source that failed.
C15_CollectAll ==
    /\ fapc # "idle" => \A s \in Sources : fpc[s] # "idle"
    /\ \A s \in Sources : fpc[s] = "send" => Len(results) < Capacity
    /\ received + Len(results) = Cardinality({s \in Sources : fpc[s] = "done"})
    /\ fapc = "returned" =>
          /\ \A s \in Sources : fpc[s] = "done"
          /\ received = Cardinality(Sources)
          /\ results = << >>
          /\ Len(fetchErrors) = Cardinality({s \in Sources : fres[s].err})
          /\ {fetchErrors[k] : k \in 1..Len(fetchErrors)} = {s \in Sources : fres[s].err}
          /\ \E order \in [1..Cardinality(Sources) -> Sources] :
                /\ \A s \in Sources : \E k \in DOMAIN order : order[k] = s
                /\ allTopics = Flatten(order)

C15_Witness ==
    /\ fapc = "returned"
    /\ fres["hn"].err
    /\ ~fres["rss"].err
    /\ Len(fres["rss"].topics) = MaxItems
    /\ allTopics = fres["rss"].topics
    /\ fetchErrors = <<"hn">>

\* C16: FetchAll takes no result of a fetch that was still outstanding when
\* the context was cancelled into its merged list, and does not wait for it.
C16_CancelAbandons ==
    [][(fapc = "collect" /\ results # << >> /\ Head(results).late)
          => allTopics' = allTopics /\ received' = received]_vars

\* C17: a bucket never holds more than burst tokens, every permitted Wait
\* or Allow takes exactly one token, and the calls a service permits between
\* two ticks t1 <= t2 never exceed burst + rate * (t2 - t1).
C17_TokenBucket ==
    [][\A n \in Names :
          /\ limiters'[n].tokens <= limiters'[n].burst
          /\ granted'[n] # granted[n]
                => /\ Len(granted'[n]) = Len(granted[n]) + 1
                   /\ limiters[n].tokens >= 1
                   /\ limiters'[n].tokens = limiters[n].tokens - 1
          /\ \A i, j \in 1..Len(granted'[n]) :
                i <= j => j - i + 1 <= limiters'[n].burst
                             + limiters'[n].rate * (granted'[n][j] - granted'[n][i])]_vars

C17_Witness ==
    /\ limiters[LimiterLinkedIn].burst = 1
    /\ limiters[LimiterLinkedIn].rate = 1
    /\ granted[LimiterLinkedIn] = <<0, 1>>
    /\ lres = [c \in Callers |-> "ok"]

\* C18: a blocked Wait whose context is cancelled can return at once, whether
\* or not a token is there; while no token is there the only way it returns
\* is with the cancellation error, taking no token.
C18_CancelledWaitReturns ==
    [][\A c \in Callers :
          (lpc[c] = "waiting" /\ lctx[c])
             => /\ ENABLED WaitCancelled(c)
                /\ (limiters[lname[c]].tokens < 1 /\ lpc'[c] # "waiting")
                      => /\ lres'[c] = "context canceled"
                         /\ limiters' = limiters
                         /\ clock' = clock]_vars

C18_Witness ==
    \E c \in Callers :
        /\ lpc[c] = "idle"
        /\ lres[c] = "context canceled"
        /\ limiters[lname[c]].tokens < 1
        /\ clock = 0

\* C19: Wait and Reserve with a name that is not registered return an error
\* at once, Allow returns false, and none of them registers a limiter or
\* changes a token count.
C19_UnknownService ==
    [][\A c \in Callers :
          (/\ lpc[c] = "idle"
           /\ <<lpc'[c], lop'[c], lname'[c], lres'[c]>> # <<lpc[c], lop[c], lname[c], lres[c]>>
           /\ ~limiters[lname'[c]].reg)
             => /\ lpc'[c] = "idle"
                /\ lres'[c] = IF lop'[c] = "Allow" THEN "false" ELSE "limiter not found"
                /\ limiters' = limiters
                /\ granted' = granted]_vars

C19_Witness ==
    /\ limiters[LimiterLinkedIn].reg
    /\ lop = [c \in Callers |-> IF c = "c1" THEN "Wait" ELSE "Reserve"]
    /\ \A c \in Callers : lname[c] = "unknown" /\ lres[c] = "limiter not found"
    /\ ~limiters["unknown"].reg

\* C20: every request the platform client sends follows a successful Wait of
\* its own on the platform's service, and a call whose Wait returned an
\* error sends nothing and returns an error.
C20_RequestsAreLimited ==
    [][/\ requests' # requests =>
            /\ Len(requests') = Len(requests) + 1
            /\ LET q == requests'[Len(requests')]
               IN /\ cpc[q.caller] = "limited"
                  /\ lop[q.caller] = "Wait"
                  /\ lname[q.caller] = LimiterLinkedIn
                  /\ lres[q.caller] = "ok"
       /\ \A c \in Callers :
            (cpc[c] = "limited" /\ lpc[c] = "idle" /\ lres[c] # "ok" /\ cpc'[c] # "limited")
            => /\ requests' = requests
               /\ cpc'[c] = "idle"
               /\ cres'[c] = "rate limit error"]_vars

\* C21: a persisted post is published exactly when its published_at and its
\* external identifier are both set, and the two fields change only in the
\* update that makes the post published.
C21_PublishedHasBoth ==
    [][\A p \in 1..Len(posts') :
         /\ posts'[p].status = PostStatusPublished
              <=> (posts'[p].pubAt # 0 /\ posts'[p].urn # 0)
         /\ (p <= Len(posts) /\ (posts'[p].pubAt # posts[p].pubAt
                                 \/ posts'[p].urn # posts[p].urn))
              => (posts'[p].status = PostStatusPublished
                  /\ posts[p].status # PostStatusPublished)]_vars

\* C24: the retry counter of a post never exceeds 3; a publish attempt on a
\* post that has failed 3 times is rejected without a platform call.
C24_RetryCapped ==
    [][\A p \in 1..Len(posts') :
         /\ posts'[p].retry <= RetryCap
         /\ \A c \in Procs :
              (pc[c] = "pub_read" /\ cur[c] = p /\ p <= Len(posts)
               /\ posts[p].retry >= RetryCap)
              => pc'[c] # "pub_mark"]_vars

\* C22: every persisted post with status scheduled has scheduled_for set,
\* whichever operation scheduled it.
C22_ScheduledHasTime ==
    \A p \in 1..Len(posts) : posts[p].status = PostStatusScheduled => posts[p].sched # 0

C22_Witness ==
    /\ Len(posts) = 2
    /\ AutoApprove
    /\ \A p \in 1..2 : posts[p].status = PostStatusScheduled /\ posts[p].sched # 0
    /\ \A c \in Schedulers : pc[c] = "idle"

\* C27: GenerateContent persists the post as draft and promotes it to
\* scheduled with scheduled_for = now exactly when auto-approve is set and
\* the topic's score exceeds the high-score threshold.
C27_PromotesAboveThreshold ==
    [][\A c \in Operators :
         /\ (pc[c] = "idle" /\ Len(posts') = Len(posts) + 1 /\ pc'["digest"] = pc["digest"])
              => LET post == posts'[Len(posts')]
                     score == topics[GetTopicByID(post.topic)].score
                 IN /\ post.status = PostStatusDraft
                    /\ pc'[c] = "gen_promote"
                         <=> (AutoApprove /\ score > HighScoreThreshold)
         /\ (pc[c] = "gen_promote" /\ pc'[c] # "gen_promote")
              => /\ posts'[cur[c]].status = PostStatusScheduled
                 /\ posts'[cur[c]].sched = now]_vars

\* C23: when the platform call of a Publish fails, the persisted post becomes
\* failed with the error recorded and its retry counter one higher than
\* before, Publish returns the error, and the Topic is left as it is.
C23_FailureBranch ==
    [][\A c \in Procs :
         (pc[c] = "pub_save" /\ urn[c] = 0 /\ pc'[c] # "pub_save")
         => /\ posts'[cur[c]].status = PostStatusFailed
            /\ posts'[cur[c]].err
            /\ posts'[cur[c]].retry = posts[cur[c]].retry + 1
            /\ posts'[cur[c]].urn = 0
            /\ c \in Operators => result'[c] = "platform error"
            /\ topics' = topics
            /\ created' = created]_vars

\* C25: a Publish that succeeds for a post with a Topic leaves that Topic
\* used, and no operation moves a Topic out of used.
C25_TopicUsed ==
    [][/\ \A c \in Procs :
            (pc[c] = "pub_topic" /\ pc'[c] # "pub_topic"
             /\ lp[c].topic # 0 /\ GetTopicByID(lp[c].topic) # 0)
            => topics'[GetTopicByID(lp[c].topic)].status = TopicStatusUsed
       /\ \A i \in 1..Len(topics) :
            topics[i].status = TopicStatusUsed => topics'[i].status = TopicStatusUsed]_vars

\* C26: ProcessScheduledPosts sweeps exactly the posts that are scheduled
\* with scheduled_for <= now at the time of its query: it calls Publish once
\* for each of them, one after another, and ends only when none is left.
C26_SweepsDuePosts ==
    [][\A w \in Windows :
         /\ (pc[w] = "checked" /\ pc'[w] = "psp_loop")
              => due'[w] = {p \in 1..Len(posts) : /\ posts[p].status = PostStatusScheduled
                                                  /\ posts[p].sched # 0
                                                  /\ posts[p].sched <= now}
         /\ (pc[w] = "psp_loop" /\ pc'[w] = "pub_read")
              => /\ cur'[w] \in due[w]
                 /\ due'[w] = due[w] \ {cur'[w]}
         /\ (pc[w] = "psp_loop" /\ pc'[w] = "idle") => due[w] = {}
         /\ (pc[w] \notin {"checked", "psp_loop"}) => due'[w] = due[w]]_vars


\* the step of process c that ends the Publish of an image post whose media
\* step (download or upload) failed
MediaFailedSave(c) ==
    /\ pc[c] = "pub_save" /\ pc'[c] # "pub_save"
    /\ lp[c].media
    /\ response[c].media = "failed"

C29_InFlightFinishes ==
    [][(daemon = "running" /\ daemon' = "exited")
         => \A w \in Windows : pc[w] = "idle"]_vars

\* C30: no failure inside a cron callback brings the scheduler process down.
C30_LoopSurvives == daemon # "crashed"


\* C31: on a manager with one source, a run started by either entry point
\* starts the pipeline with the result Run gives for that fetch outcome: a
\* result with found = the number of fetched items and no error returned, a
\* failed fetch being one recorded error in a result with found = 0.
C31_SameStart ==
    [][\A r \in Runners :
         (dpc[r] = "idle" /\ runs' = runs + 1 /\ raw'[r] = feed' /\ ranked'[r] = << >>
            /\ (dres'[r] # dres[r] \/ dpc'[r] # dpc[r] \/ dres'[r] = NoResult))
           => /\ ~dres'[r].err
              /\ dres'[r].found = Len(feed')
              /\ dres'[r] \in {[NoResult EXCEPT !.found = Len(feed')],
                               [NoResult EXCEPT !.errors = 1]}]_vars


\* C32: every persisted topic is pending and carries the score the scoring
\* function returned for its own raw item, or no score when the scorer gave
\* none for it.
C32_OwnScore ==
    \A i \in 1..Len(topics) :
        /\ topics[i].status = TopicStatusPending
        /\ \E rawTopic \in {Feed(MaxFeed)[k] : k \in 1..MaxFeed} :
              /\ topics[i].ext = GenerateExternalID(rawTopic.type, rawTopic.url)
              /\ topics[i].score \in {0, Scorer(rawTopic)}


\* C33: for every timestamp, both backends answer the due-post query with
\* the posts that are scheduled with scheduled_for <= the timestamp.
C33_SameDuePosts ==
    \A t \in 0..MaxTime :
        /\ SqliteGetScheduledPosts(t) = SheetsGetScheduledPosts(t)
        /\ SheetsGetScheduledPosts(t) =
              {p \in 1..Len(posts) : /\ posts[p].status = PostStatusScheduled
                                     /\ posts[p].sched # 0
                                     /\ posts[p].sched <= t}


\* C34: for every score threshold, both backends select the top topics from
\* the same stored topics.
C34_SameTopTopics ==
    \A minScore \in {MinScoreThreshold, HighScoreThreshold} :
        SqliteGetTopTopics(minScore) = SheetsGetTopTopics(minScore)


\* C35: a post is persisted as published only if a platform create call for
\* it was issued and returned success.
C35_PublishedWasCreated ==
    \A p \in 1..Len(posts) :
        posts[p].status = PostStatusPublished => created[p] >= 1


\* C36: when a Publish that passed the already-published check returns, the
\* persisted status of its post is published or failed.
C36_PublishSettles ==
    [][\A c \in Operators :
         (pc[c] \in {"pub_save", "pub_topic"} /\ pc'[c] = "idle")
           => posts'[cur[c]].status \in {PostStatusPublished, PostStatusFailed}]_vars


C38_KeywordsKept ==
    [][\A r \in {"cron"} :
         (dpc[r] = "dedup" /\ dpc'[r] = "rank" /\ topics = << >>)
           => /\ \A i, j \in 1..Len(feed) :
                    feed[i].title # feed[j].title
                      => GenerateExternalID(feed[i].type, feed[i].url)
                           # GenerateExternalID(feed[j].type, feed[j].url)
              /\ Len(unique'[r]) = Len(feed)]_vars

C40_OnePostedPerTarget ==
    /\ \A t \in TargetPosts :
          /\ Cardinality({i \in 1..Len(comments) :
                            /\ comments[i].target = t
                            /\ comments[i].status = CommentStatusPosted}) <= 1
          /\ commentsOn[t] <= 1
    /\ CommentsPosted <= 1

====
